---- MODULE Spec2Model ----
(***************************************************************************)
(* A model of the ingestion-and-routing core of 3d-city-loader:            *)
(*   data/traffic_graph.rs  TrafficGraph, update_traffic_graph, OneWay     *)
(*   data/geography.rs      Offset, GeoLocation::project(_no_scale)        *)
(*   data/road_type.rs      RoadType                                       *)
(*   earth/agent.rs         AgentType, agent_speed_on_road_type            *)
(*   earth/mod.rs           update_earth, delete_all, find_bounds          *)
(*                                                                         *)
(* Numbers.  Angles (longitude, latitude) are in steps of 360/640 degree,  *)
(* unscaled projected coordinates in 1/640 of the unit square, planar      *)
(* coordinates in units of GLOBAL_SCALE_FACTOR, so that one unscaled step  *)
(* projects to 100 planar units.  Path costs are kept as integers by       *)
(* multiplying every cost and every heuristic value by CostScale.          *)
(* petgraph's NodeIndex n is the position n + 1 of a vertex in `nodes`.    *)
(* Option<T> is a sequence: <<>> is None, <<v>> is Some(v).                *)
(***************************************************************************)
EXTENDS Integers, Sequences, FiniteSets, TLC

VARIABLES
    traffic_graph,    \* Res<TrafficGraph>: [nodes, edges, hashmap]
    offset_resource,  \* Res<Offset>: [finite, x, y]
    last,             \* history: the last operation, its inputs, the state before it
    search,           \* the A* run of the get_shortest_path call in progress
    simplifier,       \* simplify_polygon in progress: its locals at the head of the loop
    tasks,            \* the AsyncComputation entities, in the order they were spawned
    agents,           \* the Agent entities, in the order they were spawned
    panicked          \* a system has panicked

vars == <<traffic_graph, offset_resource, last, search, simplifier, tasks, agents, panicked>>

None == <<>>
Some(v) == <<v>>

Min(a, b) == IF a <= b THEN a ELSE b

\* The elements of a sequence, as a set.
Range(s) == {s[i] : i \in DOMAIN s}

\* All sequences over S of length lo..hi.
SeqsOf(S, lo, hi) == UNION {[1..n -> S] : n \in lo..hi}

(***************************************************************************)
(* Bounds of the model.                                                    *)
(***************************************************************************)
MaxRoadLen == 3    \* member nodes of one road feature
MaxChunks == 1     \* chunks of one GeoData
MaxChunkRoads == 1 \* road features of one chunk
MaxIngest == 2     \* GeoDataEvents handled in one behaviour
MaxEdges == 2      \* edges held by a graph built through the bare API
MaxQueries == 1    \* get_shortest_path calls in one behaviour
MaxElements == 2   \* elements of a document drawn for its structure
MaxWays == 2       \* ways of a document drawn for its features
MaxWayNodes == 2   \* member nodes of such a way
MaxPolygonLen == 6 \* points of a polygon handed to simplify_polygon
MaxCoordinate == 2 \* largest coordinate of such a point

(***************************************************************************)
(* Program constants.                                                      *)
(***************************************************************************)
GLOBAL_SCALE_FACTOR == 100
COST_MULTIPLIER_DISALLOWED == 100
\* 0.01 * GLOBAL_SCALE_FACTOR
REFERENCE_SPEED == GLOBAL_SCALE_FACTOR \div 100
\* 64000.0 * GLOBAL_SCALE_FACTOR, for both axes
LONGITUDAL_SCALE_FACTOR == 64000 * GLOBAL_SCALE_FACTOR
LATITUDAL_SCALE_FACTOR == 64000 * GLOBAL_SCALE_FACTOR
\* MAX_DISTANCE = 0.083291353581523, in 1/100000
MAX_DISTANCE_E5 == 8329

\* Steps per unit of the unscaled projection, and per full turn of longitude.
UnscaledOne == LONGITUDAL_SCALE_FACTOR \div (100 * GLOBAL_SCALE_FACTOR)
FullTurn == UnscaledOne
\* The least common multiple of the speed multipliers 24, 20, 16, 12, 6, 1.
CostScale == 24 * 10

(***************************************************************************)
(* Vec2 (bevy::math::Vec2) on integer coordinates.                         *)
(***************************************************************************)
Vec2(x, y) == [x |-> x, y |-> y]

RECURSIVE ISqrtIn(_, _, _)
ISqrtIn(n, lo, hi) ==
    IF lo >= hi THEN lo
    ELSE LET mid == (lo + hi + 1) \div 2
         IN IF mid * mid <= n THEN ISqrtIn(n, mid, hi) ELSE ISqrtIn(n, lo, mid - 1)

\* The square root, rounded down to the unit (exact on perfect squares).
ISqrt(n) == ISqrtIn(n, 0, Min(n, 46340))

\* (a - b).length()
Distance(a, b) == ISqrt((a.x - b.x) * (a.x - b.x) + (a.y - b.y) * (a.y - b.y))

(***************************************************************************)
(* RoadType, OneWay, AgentType and their tables.                           *)
(***************************************************************************)
RoadType ==
    {"Motorway", "Trunk", "Primary", "Secondary", "Tertiary", "Unclassified",
     "Residential", "MotorwayLink", "TrunkLink", "PrimaryLink", "SecondaryLink",
     "TertiaryLink", "Footway", "Steps", "Path", "NotCovered"}

OneWay == {"Yes", "No", "Reversed"}

AgentType == {"Car", "Pedestrian"}

\* str::to_lowercase on the tag values the model draws.
ToLowercase(s) ==
    CASE s = "Motorway" -> "motorway"
      [] s = "FOOTWAY" -> "footway"
      [] s = "Yes" -> "yes"
      [] OTHER -> s

\* impl FromStr for RoadType
ParseRoadType(s) ==
    LET l == ToLowercase(s)
    IN CASE l = "motorway" -> "Motorway"
         [] l = "trunk" -> "Trunk"
         [] l = "primary" -> "Primary"
         [] l = "secondary" -> "Secondary"
         [] l = "tertiary" -> "Tertiary"
         [] l = "residential" -> "Residential"
         [] l = "unclassified" -> "Unclassified"
         [] l = "motorway_link" -> "MotorwayLink"
         [] l = "trunk_link" -> "TrunkLink"
         [] l = "primary_link" -> "PrimaryLink"
         [] l = "secondary_link" -> "SecondaryLink"
         [] l = "tertiary_link" -> "TertiaryLink"
         [] l = "footway" -> "Footway"
         [] l = "steps" -> "Steps"
         [] l = "path" -> "Path"
         [] OTHER -> "NotCovered"

\* impl FromStr for OneWay with the catch-all arm giving Yes: a value the match
\* does not list makes the road forward-only.
ParseOneWay_unknown_is_forward(s) ==
    CASE s = "yes" -> "Yes"
      [] s = "true" -> "Yes"
      [] s = "1" -> "Yes"
      [] s = "no" -> "No"
      [] s = "false" -> "No"
      [] s = "0" -> "No"
      [] s = "" -> "No"
      [] s = "-1" -> "Reversed"
      [] s = "reverse" -> "Reversed"
      [] OTHER -> "Yes"

\* impl FromStr for OneWay
ParseOneWay(s) ==
    CASE s = "yes" -> "Yes"
      [] s = "true" -> "Yes"
      [] s = "1" -> "Yes"
      [] s = "no" -> "No"
      [] s = "false" -> "No"
      [] s = "0" -> "No"
      [] s = "" -> "No"
      [] s = "-1" -> "Reversed"
      [] s = "reverse" -> "Reversed"
      [] OTHER -> "No"

road_type_allowed_for_agent_type(road_type, agent_type) ==
    IF agent_type = "Car"
    THEN road_type \in
            {"Motorway", "Trunk", "Primary", "Secondary", "Tertiary", "Residential",
             "TrunkLink", "PrimaryLink", "SecondaryLink", "TertiaryLink",
             "MotorwayLink", "NotCovered"}
    ELSE road_type \in
            {"Tertiary", "Residential", "Footway", "Steps", "Path", "Unclassified",
             "NotCovered"}

agent_speed_on_road_type(reference_speed, agent_type, road_type) ==
    IF agent_type = "Car"
    THEN LET multiplier ==
                CASE road_type = "Motorway" -> 24
                  [] road_type = "Trunk" -> 24
                  [] road_type = "Primary" -> 20
                  [] road_type = "Secondary" -> 16
                  [] road_type = "Tertiary" -> 12
                  [] road_type = "Residential" -> 6
                  [] road_type = "Unclassified" -> 6
                  [] OTHER -> 6
         IN multiplier * reference_speed
    ELSE reference_speed

(***************************************************************************)
(* TrafficGraph.                                                           *)
(***************************************************************************)
\* impl Default for TrafficGraph
DefaultTrafficGraph == [nodes |-> <<>>, edges |-> <<>>, hashmap |-> <<>>]

Edge(a, b, distance, road_type) ==
    [from |-> a, to |-> b, distance |-> distance, road_type |-> road_type]

\* add_node without the lookup of the id: a vertex is appended on every call.
add_node_always_appends(g, osm_id, location) ==
    LET index == Len(g.nodes) + 1
    IN [g |-> [g EXCEPT !.nodes = Append(@, location),
                        !.hashmap = (osm_id :> index) @@ @],
        index |-> index]

\* TrafficGraph::add_node: the graph after the call, and the handle it returns.
add_node(g, osm_id, location) ==
    IF osm_id \in DOMAIN g.hashmap
    THEN [g |-> g, index |-> g.hashmap[osm_id]]
    ELSE LET index == Len(g.nodes) + 1
         IN [g |-> [g EXCEPT !.nodes = Append(@, location),
                             !.hashmap = (osm_id :> index) @@ @],
             index |-> index]

\* Graph::update_edge: the weight of an edge a -> b is replaced when there is one.
UpdateEdge(edges, e) ==
    IF \E i \in DOMAIN edges : edges[i].from = e.from /\ edges[i].to = e.to
    THEN LET i == CHOOSE i \in DOMAIN edges : edges[i].from = e.from /\ edges[i].to = e.to
         IN [edges EXCEPT ![i] = e]
    ELSE Append(edges, e)

\* add_connection with update_edge for add_edge: parallel edges are merged.
add_connection_update_edge(g, from_index, from_location, to_index, to_location, oneway, road_type) ==
    LET distance == Distance(from_location, to_location)
        a == add_node(g, from_index, from_location)
        b == add_node(a.g, to_index, to_location)
        fwd == Edge(a.index, b.index, distance, road_type)
        bwd == Edge(b.index, a.index, distance, road_type)
    IN CASE oneway = "Yes" -> [b.g EXCEPT !.edges = UpdateEdge(@, fwd)]
         [] oneway = "No" -> [b.g EXCEPT !.edges = UpdateEdge(UpdateEdge(@, fwd), bwd)]
         [] oneway = "Reversed" -> [b.g EXCEPT !.edges = UpdateEdge(@, bwd)]

\* TrafficGraph::add_connection
add_connection(g, from_index, from_location, to_index, to_location, oneway, road_type) ==
    LET distance == Distance(from_location, to_location)
        a == add_node(g, from_index, from_location)
        b == add_node(a.g, to_index, to_location)
        fwd == Edge(a.index, b.index, distance, road_type)
        bwd == Edge(b.index, a.index, distance, road_type)
    IN CASE oneway = "Yes" -> [b.g EXCEPT !.edges = Append(@, fwd)]
         [] oneway = "No" -> [b.g EXCEPT !.edges = Append(Append(@, fwd), bwd)]
         [] oneway = "Reversed" -> [b.g EXCEPT !.edges = Append(@, bwd)]

\* TrafficGraph::get_index
get_index(g, osm_id) ==
    IF osm_id \in DOMAIN g.hashmap THEN Some(g.hashmap[osm_id]) ELSE None

\* reset that clears the petgraph graph and leaves the id map.
reset_graph_only(g) == [g EXCEPT !.nodes = <<>>, !.edges = <<>>]

\* TrafficGraph::reset
reset(g) == [g EXCEPT !.nodes = <<>>, !.edges = <<>>, !.hashmap = <<>>]

\* TrafficGraph::get_size
get_size(g) == Len(g.nodes)

\* TrafficGraph::get_node_location
get_node_location(g, index) == g.nodes[index]

(***************************************************************************)
(* Offset and GeoLocation.                                                 *)
(***************************************************************************)
\* impl Default for Offset: negative infinity on both axes.
DefaultOffset == [finite |-> FALSE, x |-> 0, y |-> 0]

Offset(x, y) == [finite |-> TRUE, x |-> x, y |-> y]

GeoLocation(longitude, latitude) == [longitude |-> longitude, latitude |-> latitude]

\* 180 degrees.
HalfTurn == FullTurn \div 2

\* asinh(tan(latitude)) / PI in unscaled steps, rounded to the step, for the
\* latitudes the model draws.
AsinhTanOverPi(latitude) ==
    CASE latitude = 0 -> 0
      [] latitude = -11 -> -22
      [] latitude = 11 -> 22
      [] latitude = -60 -> -128
      [] latitude = 60 -> 128

\* GeoLocation::project_no_scale
project_no_scale(loc) ==
    [x |-> ((loc.longitude + HalfTurn) * UnscaledOne) \div FullTurn,
     y |-> (UnscaledOne - AsinhTanOverPi(loc.latitude)) \div 2]

\* GeoLocation::project.  Under the default offset both coordinates are
\* infinite.
project(loc, offset) ==
    IF offset.finite
    THEN LET p == project_no_scale(loc)
         IN Vec2((p.x - offset.x)
                     * (LONGITUDAL_SCALE_FACTOR \div (UnscaledOne * GLOBAL_SCALE_FACTOR)),
                 (p.y - offset.y)
                     * (LATITUDAL_SCALE_FACTOR \div (UnscaledOne * GLOBAL_SCALE_FACTOR)))
    ELSE Vec2("inf", "inf")

(***************************************************************************)
(* update_traffic_graph.  A HashMap is iterated in an order the program    *)
(* does not choose: road_features is the sequence of one such iteration.   *)
(* Beside the graph, the walk returns the calls it made, per road.         *)
(***************************************************************************)
AddNodeCall(id, location) == [op |-> "add_node", id |-> id, location |-> location]

AddConnectionCall(a, la, b, lb, oneway, road_type) ==
    [op |-> "add_connection", from |-> a, from_location |-> la, to |-> b,
     to_location |-> lb, oneway |-> oneway, road_type |-> road_type]

\* The `oneway` and `highway` tags of a road, with their fallbacks.
RoadOneWay(road) ==
    IF "oneway" \in DOMAIN road.tags THEN ParseOneWay(road.tags["oneway"]) ELSE "No"

RoadRoadType(road) ==
    IF "highway" \in DOMAIN road.tags
    THEN ParseRoadType(road.tags["highway"])
    ELSE "NotCovered"

\* The loop body with the cursor dropped at an id that does not resolve: the
\* chain breaks there.
WalkNode_breaks_chain(st, osm_vertex_id, node_locations, oneway, road_type, offset) ==
    IF osm_vertex_id \notin DOMAIN node_locations
    THEN [st EXCEPT !.last_vertex_osm_id = None, !.last_vertex_location = None]
    ELSE LET location == project(node_locations[osm_vertex_id], offset)
             g1 == add_node(st.g, osm_vertex_id, location).g
             c1 == Append(st.calls, AddNodeCall(osm_vertex_id, location))
         IN IF st.last_vertex_osm_id # None
            THEN LET last_node == st.last_vertex_osm_id[1]
                     last_location == st.last_vertex_location[1]
                 IN [g |-> add_connection(g1, last_node, last_location,
                                          osm_vertex_id, location, oneway, road_type),
                     calls |-> Append(c1, AddConnectionCall(last_node, last_location,
                                          osm_vertex_id, location, oneway, road_type)),
                     last_vertex_osm_id |-> Some(osm_vertex_id),
                     last_vertex_location |-> Some(location)]
            ELSE [g |-> g1, calls |-> c1,
                  last_vertex_osm_id |-> Some(osm_vertex_id),
                  last_vertex_location |-> Some(location)]

\* One iteration of the loop over road.nodes.
WalkNode(st, osm_vertex_id, node_locations, oneway, road_type, offset) ==
    IF osm_vertex_id \notin DOMAIN node_locations
    THEN st
    ELSE LET location == project(node_locations[osm_vertex_id], offset)
             g1 == add_node(st.g, osm_vertex_id, location).g
             c1 == Append(st.calls, AddNodeCall(osm_vertex_id, location))
         IN IF st.last_vertex_osm_id # None
            THEN LET last_node == st.last_vertex_osm_id[1]
                     last_location == st.last_vertex_location[1]
                 IN [g |-> add_connection(g1, last_node, last_location,
                                          osm_vertex_id, location, oneway, road_type),
                     calls |-> Append(c1, AddConnectionCall(last_node, last_location,
                                          osm_vertex_id, location, oneway, road_type)),
                     last_vertex_osm_id |-> Some(osm_vertex_id),
                     last_vertex_location |-> Some(location)]
            ELSE [g |-> g1, calls |-> c1,
                  last_vertex_osm_id |-> Some(osm_vertex_id),
                  last_vertex_location |-> Some(location)]

\* The loop over road.nodes.  (Here and in the loops below the state after a
\* pass is bound through a singleton set: TLC then computes it ahead of the
\* next pass instead of nesting the passes.)
RECURSIVE WalkNodes(_, _, _, _, _, _, _)
WalkNodes(st, nodes, i, node_locations, oneway, road_type, offset) ==
    IF i > Len(nodes) THEN st
    ELSE CHOOSE after \in
            {WalkNodes(next, nodes, i + 1, node_locations, oneway, road_type, offset) :
                next \in {WalkNode(st, nodes[i], node_locations, oneway, road_type,
                                   offset)}} : TRUE

\* The body of the loop over road_features, for one road.
WalkRoad(g, road, node_locations, offset) ==
    WalkNodes([g |-> g, calls |-> <<>>, last_vertex_osm_id |-> None,
               last_vertex_location |-> None],
              road.nodes, 1, node_locations, RoadOneWay(road), RoadRoadType(road), offset)

RECURSIVE WalkRoads(_, _, _, _, _)
WalkRoads(acc, road_features, i, node_locations, offset) ==
    IF i > Len(road_features) THEN acc
    ELSE CHOOSE after \in
            {WalkRoads([g |-> w.g, calls |-> Append(acc.calls, w.calls)],
                       road_features, i + 1, node_locations, offset) :
                w \in {WalkRoad(acc.g, road_features[i], node_locations, offset)}} : TRUE

\* update_traffic_graph: [g: the graph after, calls: per road, the calls made].
update_traffic_graph(node_locations, road_features, g, offset) ==
    WalkRoads([g |-> g, calls |-> <<>>], road_features, 1, node_locations, offset)

(***************************************************************************)
(* update_earth, for one GeoDataEvent.                                     *)
(***************************************************************************)
\* find_bounds, its median: the lower middle of the locations sorted by
\* latitude + longitude.  The sort is stable and the map's iteration order is
\* not the program's, so locations of equal sum may come in any order.
Medians(node_locations) ==
    LET ids == DOMAIN node_locations
        len == Cardinality(ids)
        sum(id) == node_locations[id].latitude + node_locations[id].longitude
        mid == len \div 2
        \* the index of the median in loc_sums, counted from 0
        at == IF len % 2 = 0 THEN mid - 1 ELSE mid
    IN IF ids = {}
       THEN {GeoLocation(0, 0)}
       ELSE {node_locations[id] : id \in
                {j \in ids :
                    /\ Cardinality({k \in ids : sum(k) < sum(j)}) <= at
                    /\ at < Cardinality({k \in ids : sum(k) <= sum(j)})}}

\* The comparison against 0 for MAX_DISTANCE: any move of the candidate
\* recentres.
TooFar_any_move(offset_candidate, offset) ==
    \/ ~offset.finite
    \/ offset_candidate.x # offset.x
    \/ offset_candidate.y # offset.y

\* The comparison on finite offsets only: under the default offset no
\* candidate is too far.
TooFar_finite_only(offset_candidate, offset) ==
    /\ offset.finite
    /\ LET dx == offset_candidate.x - offset.x
           dy == offset_candidate.y - offset.y
           max == (MAX_DISTANCE_E5 * UnscaledOne) \div 1000
       IN (dx * dx + dy * dy) * 10000 > max * max

\* distance > MAX_DISTANCE, on the squares: both sides in 1/100 of a step.
TooFar(offset_candidate, offset) ==
    \/ ~offset.finite
    \/ LET dx == offset_candidate.x - offset.x
           dy == offset_candidate.y - offset.y
           max == (MAX_DISTANCE_E5 * UnscaledOne) \div 1000
       IN (dx * dx + dy * dy) * 10000 > max * max

\* delete_all without the reset of the traffic graph.
delete_all_keeps_graph(g) == g

\* delete_all, its effect on the traffic graph.
delete_all(g) == reset(g)

\* The loop over event.data.chunks: update_traffic_graph per chunk.
RECURSIVE BuildChunks(_, _, _, _, _)
BuildChunks(acc, chunks, i, node_locations, offset) ==
    IF i > Len(chunks) THEN acc
    ELSE CHOOSE after \in
            {BuildChunks([g |-> u.g, calls |-> acc.calls \o u.calls],
                         chunks, i + 1, node_locations, offset) :
                u \in {update_traffic_graph(node_locations, chunks[i], acc.g, offset)}} :
            TRUE

\* update_earth without line 123: the batch is built under the old offset.
update_earth_stale_offset(g, offset_before, data, median) ==
    LET old_traffic_graph_size == get_size(g)
        avg == project_no_scale(median)
        offset_candidate == Offset(avg.x, avg.y)
        far == TooFar(offset_candidate, offset_before)
        g1 == IF far THEN delete_all(g) ELSE g
        built == BuildChunks([g |-> g1, calls |-> <<>>], data.chunks, 1,
                             data.node_locations,
                             IF offset_before.finite THEN offset_before
                             ELSE offset_candidate)
    IN [g |-> built.g, offset |-> IF far THEN offset_candidate ELSE offset_before,
        calls |-> built.calls,
        recentred |-> far, offset_candidate |-> offset_candidate,
        old_traffic_graph_size |-> old_traffic_graph_size]

\* The handler's effect for one event, with `median` the location find_bounds
\* returns: the offset and graph after it, and what it did.
update_earth(g, offset_before, data, median) ==
    LET old_traffic_graph_size == get_size(g)
        avg == project_no_scale(median)
        offset_candidate == Offset(avg.x, avg.y)
        far == TooFar(offset_candidate, offset_before)
        offset == IF far THEN offset_candidate ELSE offset_before
        g1 == IF far THEN delete_all(g) ELSE g
        built == BuildChunks([g |-> g1, calls |-> <<>>], data.chunks, 1,
                             data.node_locations, offset)
    IN [g |-> built.g, offset |-> offset, calls |-> built.calls,
        recentred |-> far, offset_candidate |-> offset_candidate,
        old_traffic_graph_size |-> old_traffic_graph_size]

(***************************************************************************)
(* get_shortest_path: petgraph::algo::astar with the closures of lines     *)
(* 104-123.  Costs and estimates are multiplied by CostScale.              *)
(***************************************************************************)
\* The edge_cost closure.
EdgeCost(edge, agent_type) ==
    LET road_type == edge.road_type
        weight == IF ~road_type_allowed_for_agent_type(road_type, agent_type)
                  THEN edge.distance * COST_MULTIPLIER_DISALLOWED
                  ELSE edge.distance
    IN (weight * CostScale)
          \div agent_speed_on_road_type(REFERENCE_SPEED, agent_type, road_type)

\* The estimate_cost closure: the straight line to the goal.
EstimateCost(g, node, to_index) ==
    CostScale * Distance(get_node_location(g, to_index), get_node_location(g, node))

Reverse(s) == [i \in 1..Len(s) |-> s[Len(s) + 1 - i]]

\* graph.edges(node) with the incoming edges for the outgoing ones.
OutgoingEdges_incoming(g, node) ==
    LET Into(e) == e.to = node
    IN SelectSeq(Reverse(g.edges), Into)

\* graph.edges(node): the outgoing edges of node, the last added first.
OutgoingEdges(g, node) ==
    LET From(e) == e.from = node
    IN SelectSeq(Reverse(g.edges), From)

\* The far end of an edge followed from node.
EdgeTarget(edge, node) == IF edge.from = node THEN edge.to ELSE edge.from

\* One iteration of astar's loop over graph.edges(node).
RelaxEdge(st, g, node, node_score, edge, to_index, agent_type) ==
    LET next == EdgeTarget(edge, node)
        next_score == node_score + EdgeCost(edge, agent_type)
    IN IF next \in DOMAIN st.scores /\ st.scores[next] <= next_score
       THEN st
       ELSE [scores |-> (next :> next_score) @@ st.scores,
             came_from |-> (next :> node) @@ st.came_from,
             visit_next |-> Append(st.visit_next,
                                   [score |-> next_score + EstimateCost(g, next, to_index),
                                    node |-> next])]

RECURSIVE RelaxEdges(_, _, _, _, _, _, _, _)
RelaxEdges(st, g, node, node_score, out, i, to_index, agent_type) ==
    IF i > Len(out) THEN st
    ELSE RelaxEdges(RelaxEdge(st, g, node, node_score, out[i], to_index, agent_type),
                    g, node, node_score, out, i + 1, to_index, agent_type)

\* PathTracker::reconstruct_path_to: the predecessors of `node`, reversed.
RECURSIVE ReconstructPathTo(_, _)
ReconstructPathTo(came_from, node) ==
    IF node \in DOMAIN came_from
    THEN Append(ReconstructPathTo(came_from, came_from[node]), node)
    ELSE <<node>>

\* Vec::swap_remove for Vec::remove: the last element takes the place of the
\* removed one.
RemoveAt_swap_remove(s, i) ==
    IF i = Len(s) THEN SubSeq(s, 1, Len(s) - 1)
    ELSE SubSeq([s EXCEPT ![i] = s[Len(s)]], 1, Len(s) - 1)

\* s without its i-th element.
RemoveAt(s, i) == SubSeq(s, 1, i - 1) \o SubSeq(s, i + 1, Len(s))

\* The entries BinaryHeap::pop may return: those of least score.
MinEntries(visit_next) ==
    {i \in DOMAIN visit_next : \A j \in DOMAIN visit_next :
        visit_next[i].score <= visit_next[j].score}

\* The state of astar at its start.
AstarStart(g, from_index, to_index, agent_type, queries) ==
    [pc |-> "running", queries |-> queries, graph |-> g, from |-> from_index,
     to |-> to_index, agent_type |-> agent_type,
     visit_next |-> <<[score |-> EstimateCost(g, from_index, to_index),
                       node |-> from_index]>>,
     scores |-> (from_index :> 0), estimate_scores |-> <<>>, came_from |-> <<>>,
     result |-> None]

\* One iteration of astar's while loop, popping the i-th entry; with the heap
\* empty, the None after the loop.
AstarIterate(s, i) ==
    IF s.visit_next = <<>>
    THEN [s EXCEPT !.pc = "done", !.result = None]
    ELSE LET entry == s.visit_next[i]
             node == entry.node
             rest == RemoveAt(s.visit_next, i)
         IN IF node = s.to
            THEN [s EXCEPT !.pc = "done", !.visit_next = rest,
                           !.result = Some(ReconstructPathTo(s.came_from, node))]
            ELSE IF /\ node \in DOMAIN s.estimate_scores
                    /\ s.estimate_scores[node] <= entry.score
            THEN [s EXCEPT !.visit_next = rest]
            ELSE LET st == RelaxEdges([scores |-> s.scores, came_from |-> s.came_from,
                                       visit_next |-> rest],
                                      s.graph, node, s.scores[node],
                                      OutgoingEdges(s.graph, node), 1, s.to,
                                      s.agent_type)
                 IN [s EXCEPT !.visit_next = st.visit_next, !.scores = st.scores,
                              !.came_from = st.came_from,
                              !.estimate_scores = (node :> entry.score) @@ @]

(***************************************************************************)
(* serde_json::Value, as far as convert_osm_json tells values apart.  A     *)
(* Number is one of serde_json's three encodings (PosInt, NegInt, Float)    *)
(* with its value; an Object is a function on its keys.                     *)
(***************************************************************************)
JsonNull == [kind |-> "Null"]
JsonString(s) == [kind |-> "String", string |-> s]
JsonNumber(n, v) == [kind |-> "Number", n |-> n, value |-> v]
JsonArray(a) == [kind |-> "Array", array |-> a]
JsonObject(o) == [kind |-> "Object", object |-> o]

\* Map::get
Get(object, key) == IF key \in DOMAIN object THEN Some(object[key]) ELSE None

\* Number::is_u64 / as_u64, Number::as_i64, Number::as_f64 (default features)
is_u64(number) == number.n = "PosInt"
as_u64(value) ==
    IF value.kind = "Number" /\ value.n = "PosInt" THEN Some(value.value) ELSE None
as_i64(number) == IF number.n \in {"PosInt", "NegInt"} THEN Some(number.value) ELSE None
as_f64(number) == Some(number.value)

\* Results of the parser: Ok, Err(AppError::DataSyntax) and a panic.
Ok(v) == [kind |-> "Ok", value |-> v]
Panic == [kind |-> "Panic"]

\* fn error
error(message) ==
    [kind |-> "Err",
     error |-> [variant |-> "DataSyntax", format |-> "OsmJson", line |-> None,
                character |-> None, message |-> message]]

\* fn truncate_to_f64; Panic stands for unreachable!()
truncate_to_f64(number) ==
    IF as_f64(number) # None THEN Ok(as_f64(number)[1])
    ELSE IF as_i64(number) # None THEN Ok(as_i64(number)[1])
    ELSE IF as_u64(number) # None THEN Ok(as_u64(number)[1])
    ELSE Panic

\* fn get_element_type
get_element_type(element_object) ==
    LET t == Get(element_object, "type")
    IN IF t # None /\ t[1].kind = "String" THEN Ok(t[1].string)
       ELSE error("an element must have a 'type' tag that is a string")

\* fn get_id
get_id(element_object) ==
    LET i == Get(element_object, "id")
    IN IF i # None /\ i[1].kind = "Number" /\ is_u64(i[1]) THEN Ok(as_u64(i[1])[1])
       ELSE error("an element must have an 'id' tag that is a nonnegative integer")

\* get_tags, with a tags field that is no object read as no tags.
get_tags_lenient(element_object) ==
    LET t == Get(element_object, "tags")
    IN IF t = None \/ t[1].kind # "Object" THEN Ok(<<>>)
       ELSE IF \E k \in DOMAIN t[1].object : t[1].object[k].kind # "String"
       THEN error("'tags' field must be a map from strings to strings")
       ELSE Ok([k \in DOMAIN t[1].object |-> t[1].object[k].string])

\* fn get_tags
get_tags(element_object) ==
    LET t == Get(element_object, "tags")
    IN IF t = None THEN Ok(<<>>)
       ELSE IF t[1].kind # "Object" THEN error("'tags' field must be an object")
       ELSE IF \E k \in DOMAIN t[1].object : t[1].object[k].kind # "String"
       THEN error("'tags' field must be a map from strings to strings")
       ELSE Ok([k \in DOMAIN t[1].object |-> t[1].object[k].string])

\* find_feature_type with highway looked up before waterway.
find_feature_type_highway_first(tags) ==
    IF "building" \in DOMAIN tags THEN Some("Building")
    ELSE IF "highway" \in DOMAIN tags THEN Some("Road")
    ELSE IF "waterway" \in DOMAIN tags THEN Some("River")
    ELSE IF "landuse" \in DOMAIN tags THEN Some("LandUse")
    ELSE IF Get(tags, "natural") = Some("water") THEN Some("Lake")
    ELSE None

\* fn find_feature_type
find_feature_type(tags) ==
    IF "building" \in DOMAIN tags THEN Some("Building")
    ELSE IF "waterway" \in DOMAIN tags THEN Some("River")
    ELSE IF "highway" \in DOMAIN tags THEN Some("Road")
    ELSE IF "landuse" \in DOMAIN tags THEN Some("LandUse")
    ELSE IF Get(tags, "natural") = Some("water") THEN Some("Lake")
    ELSE None

\* fn parse_u64_array
parse_u64_array(object) ==
    IF \E i \in DOMAIN object : as_u64(object[i]) = None THEN None
    ELSE Some([i \in DOMAIN object |-> as_u64(object[i])[1]])

\* CHUNK_SIZE = 8.0 * GLOBAL_SCALE_FACTOR
CHUNK_SIZE == 8 * GLOBAL_SCALE_FACTOR

\* ChunkIndex::from_vec2: the floor of each coordinate over CHUNK_SIZE (a
\* planar unit of the model is GLOBAL_SCALE_FACTOR).
from_vec2(coords) ==
    [x |-> (coords.x * GLOBAL_SCALE_FACTOR) \div CHUNK_SIZE,
     z |-> (coords.y * GLOBAL_SCALE_FACTOR) \div CHUNK_SIZE]

\* Chunk::default
DefaultChunk ==
    [nodes |-> <<>>, building_features |-> <<>>, road_features |-> <<>>,
     land_use_features |-> <<>>, lake_features |-> <<>>, river_features |-> <<>>]

\* The field of Chunk holding the features of a FeatureType.
FeatureField(feature_type) ==
    CASE feature_type = "Building" -> "building_features"
      [] feature_type = "Road" -> "road_features"
      [] feature_type = "LandUse" -> "land_use_features"
      [] feature_type = "Lake" -> "lake_features"
      [] feature_type = "River" -> "river_features"

\* chunks.entry(index).or_insert(Chunk::default()).<field>.insert(id, item)
InsertInChunk(chunks, index, field, id, item) ==
    LET chunk == IF index \in DOMAIN chunks THEN chunks[index] ELSE DefaultChunk
    IN (index :> [chunk EXCEPT ![field] = (id :> item) @@ @]) @@ chunks

(***************************************************************************)
(* convert_osm_json.  Each pass is a loop over the elements; a step of a    *)
(* loop returns Ok with the map it builds, or the Err (or Panic) that ends  *)
(* the conversion.                                                          *)
(***************************************************************************)
\* Pass 1 with an element that is no object skipped.
Pass1Element_skips_non_object(node_locations, element) ==
    IF element.kind # "Object" THEN Ok(node_locations)
    ELSE LET element_object == element.object
             type == get_element_type(element_object)
             id == get_id(element_object)
             lon == Get(element_object, "lon")
             lat == Get(element_object, "lat")
             longitude == truncate_to_f64(lon[1])
             latitude == truncate_to_f64(lat[1])
         IN IF type.kind # "Ok" THEN type
            ELSE IF type.value # "node" THEN Ok(node_locations)
            ELSE IF id.kind # "Ok" THEN id
            ELSE IF lon = None \/ lon[1].kind # "Number" THEN Ok(node_locations)
            ELSE IF longitude.kind # "Ok" THEN longitude
            ELSE IF lat = None \/ lat[1].kind # "Number" THEN Ok(node_locations)
            ELSE IF latitude.kind # "Ok" THEN latitude
            ELSE Ok((id.value :> GeoLocation(longitude.value, latitude.value))
                        @@ node_locations)

\* The body of the first loop over elements (lines 197-220).
Pass1Element(node_locations, element) ==
    IF element.kind # "Object"
    THEN error("an element in the 'elements' array must be an object")
    ELSE LET element_object == element.object
             type == get_element_type(element_object)
             id == get_id(element_object)
             lon == Get(element_object, "lon")
             lat == Get(element_object, "lat")
             longitude == truncate_to_f64(lon[1])
             latitude == truncate_to_f64(lat[1])
         IN IF type.kind # "Ok" THEN type
            ELSE IF type.value # "node" THEN Ok(node_locations)
            ELSE IF id.kind # "Ok" THEN id
            ELSE IF lon = None \/ lon[1].kind # "Number" THEN Ok(node_locations)
            ELSE IF longitude.kind # "Ok" THEN longitude
            ELSE IF lat = None \/ lat[1].kind # "Number" THEN Ok(node_locations)
            ELSE IF latitude.kind # "Ok" THEN latitude
            ELSE Ok((id.value :> GeoLocation(longitude.value, latitude.value))
                        @@ node_locations)

RECURSIVE Pass1(_, _, _)
Pass1(node_locations, elements, i) ==
    IF i > Len(elements) THEN Ok(node_locations)
    ELSE LET r == Pass1Element(node_locations, elements[i])
         IN IF r.kind # "Ok" THEN r ELSE Pass1(r.value, elements, i + 1)

RECURSIVE SumResolved(_, _, _, _)
SumResolved(nodes, node_locations, i, acc) ==
    IF i > Len(nodes) THEN acc
    ELSE SumResolved(nodes, node_locations, i + 1,
            IF nodes[i] \in DOMAIN node_locations
            THEN [sum_lon |-> acc.sum_lon + node_locations[nodes[i]].longitude,
                  sum_lat |-> acc.sum_lat + node_locations[nodes[i]].latitude,
                  count |-> acc.count + 1]
            ELSE acc)

\* The location of the first member that resolves, for the average.
Average_first_member(nodes, node_locations) ==
    LET resolved == {i \in DOMAIN nodes : nodes[i] \in DOMAIN node_locations}
    IN IF resolved = {} THEN None
       ELSE Some(node_locations[nodes[CHOOSE i \in resolved : \A j \in resolved : i <= j]])

\* Lines 268-287: the average location of the members that resolve, None with
\* none (the `continue`).  The model draws locations whose sums divide.
Average(nodes, node_locations) ==
    LET acc == SumResolved(nodes, node_locations, 1,
                           [sum_lon |-> 0, sum_lat |-> 0, count |-> 0])
    IN IF acc.count = 0 THEN None
       ELSE Some(GeoLocation(acc.sum_lon \div acc.count, acc.sum_lat \div acc.count))

\* The "node" arm with a tagged node without location skipped.
Pass2Node_skips_unlocated(chunks, node_locations, id, tags) ==
    IF DOMAIN tags # {}
    THEN IF Get(node_locations, id) = None
         THEN Ok(chunks)
         ELSE LET location == Get(node_locations, id)[1]
                  chunk == from_vec2(project(location, Offset(0, 0)))
              IN Ok(InsertInChunk(chunks, chunk, "nodes", id, [tags |-> tags]))
    ELSE Ok(chunks)

\* The "node" arm of the second loop (lines 238-249).
Pass2Node(chunks, node_locations, id, tags) ==
    IF DOMAIN tags # {}
    THEN IF Get(node_locations, id) = None
         THEN error("node has tags but no location")
         ELSE LET location == Get(node_locations, id)[1]
                  chunk == from_vec2(project(location, Offset(0, 0)))
              IN Ok(InsertInChunk(chunks, chunk, "nodes", id, [tags |-> tags]))
    ELSE Ok(chunks)

\* The "way" arm without the `continue` of line 280: a way none of whose
\* members resolves is stored, in the chunk of the origin of the plane.
Pass2Way_keeps_unresolved(chunks, node_locations, element_object, id, tags) ==
    LET nodes_field == Get(element_object, "nodes")
        nodes == parse_u64_array(nodes_field[1].array)
        feature_type == find_feature_type(tags)
        avg == Average(nodes[1], node_locations)
        index == IF avg = None THEN from_vec2(Vec2(0, 0))
                 ELSE from_vec2(project(avg[1], Offset(0, 0)))
    IN IF nodes_field = None \/ nodes_field[1].kind # "Array"
       THEN error("a way element must have a 'nodes' key")
       ELSE IF nodes = None
       THEN error("'nodes' array must not contain non-integral values")
       ELSE IF feature_type = None THEN Ok(chunks)
       ELSE Ok(InsertInChunk(chunks, index, FeatureField(feature_type[1]), id,
                             [nodes |-> nodes[1], tags |-> tags]))

\* The "way" arm of the second loop (lines 250-324).
Pass2Way(chunks, node_locations, element_object, id, tags) ==
    LET nodes_field == Get(element_object, "nodes")
        nodes == parse_u64_array(nodes_field[1].array)
        feature_type == find_feature_type(tags)
        avg == Average(nodes[1], node_locations)
        index == from_vec2(project(avg[1], Offset(0, 0)))
    IN IF nodes_field = None \/ nodes_field[1].kind # "Array"
       THEN error("a way element must have a 'nodes' key")
       ELSE IF nodes = None
       THEN error("'nodes' array must not contain non-integral values")
       ELSE IF feature_type = None THEN Ok(chunks)
       ELSE IF avg = None THEN Ok(chunks)
       ELSE Ok(InsertInChunk(chunks, index, FeatureField(feature_type[1]), id,
                             [nodes |-> nodes[1], tags |-> tags]))

\* The body of the second loop over elements (lines 224-331); Panic stands
\* for the unwrap_throw of as_object.
Pass2Element(chunks, node_locations, element) ==
    IF element.kind # "Object" THEN Panic
    ELSE LET element_object == element.object
             element_type == get_element_type(element_object)
             id == get_id(element_object)
             tags == get_tags(element_object)
         IN IF element_type.kind # "Ok" THEN element_type
            ELSE IF id.kind # "Ok" THEN id
            ELSE IF tags.kind # "Ok" THEN tags
            ELSE IF element_type.value = "node"
            THEN Pass2Node(chunks, node_locations, id.value, tags.value)
            ELSE IF element_type.value = "way"
            THEN Pass2Way(chunks, node_locations, element_object, id.value, tags.value)
            ELSE Ok(chunks)

RECURSIVE Pass2(_, _, _, _)
Pass2(chunks, node_locations, elements, i) ==
    IF i > Len(elements) THEN Ok(chunks)
    ELSE LET r == Pass2Element(chunks, node_locations, elements[i])
         IN IF r.kind # "Ok" THEN r ELSE Pass2(r.value, node_locations, elements, i + 1)

\* fn convert_osm_json
convert_osm_json(json) ==
    IF json.kind # "Object" THEN error("OSM JSON root must be an object")
    ELSE LET elements == Get(json.object, "elements")
             node_locations == Pass1(<<>>, elements[1].array, 1)
             chunks == Pass2(<<>>, node_locations.value, elements[1].array, 1)
         IN IF elements = None \/ elements[1].kind # "Array"
            THEN error("OSM JSON root needs to have an 'elements' key that is an array")
            ELSE IF node_locations.kind # "Ok" THEN node_locations
            ELSE IF chunks.kind # "Ok" THEN chunks
            ELSE Ok([node_locations |-> node_locations.value, chunks |-> chunks.value])

(***************************************************************************)
(* simplify_polygon.  Points have whole coordinates; areas and thresholds   *)
(* are counted in halves of a unit square, so that triangle_area is whole.  *)
(* Sequences are indexed from 1.                                            *)
(***************************************************************************)
Abs(x) == IF x < 0 THEN 0 - x ELSE x

\* fn triangle_area, in halves
triangle_area(previous_point, current_point, next_point) ==
    Abs(previous_point.x * (current_point.y - next_point.y)
        + current_point.x * (next_point.y - previous_point.y)
        + next_point.x * (previous_point.y - current_point.y))

\* fn calculate_triangle_area_at_pos
calculate_triangle_area_at_pos(polygon, i) ==
    LET n == Len(polygon)
    IN triangle_area(polygon[IF i = 1 THEN n ELSE i - 1], polygon[i],
                     polygon[IF i = n THEN 1 ELSE i + 1])

\* The precompute loop with its window one point ahead: the area cached for a
\* point is the one its successor spans.
PrecomputeAreas_window_ahead(polygon) ==
    [i \in 1..Len(polygon) |->
        triangle_area(polygon[i], polygon[IF i = Len(polygon) THEN 1 ELSE i + 1],
                      polygon[((i + 1) % Len(polygon)) + 1])]

\* Lines 13-24: the areas spanned by every point and its cyclic neighbours.
PrecomputeAreas(polygon) ==
    [i \in 1..Len(polygon) |->
        triangle_area(polygon[IF i = 1 THEN Len(polygon) ELSE i - 1], polygon[i],
                      polygon[IF i = Len(polygon) THEN 1 ELSE i + 1])]

\* The scan with `<=` for `<`: the last index of the least area.
MinIndex_last_occurrence(areas) ==
    CHOOSE i \in DOMAIN areas :
        /\ \A j \in DOMAIN areas : areas[i] <= areas[j]
        /\ \A j \in (i + 1)..Len(areas) : areas[j] > areas[i]

\* Lines 28-35: the first index of the least area (strict comparison).
MinIndex(areas) ==
    CHOOSE i \in DOMAIN areas :
        /\ \A j \in DOMAIN areas : areas[i] <= areas[j]
        /\ \A j \in 1..(i - 1) : areas[j] > areas[i]

\* The loop with a floor of 3 points.
LoopRuns_floor_of_three(polygon) == Len(polygon) > 3

\* Line 27: the condition of the while loop.
LoopRuns(polygon) == Len(polygon) > 4

\* The break taken already at the threshold.
Breaks_at_threshold(min_area, threshold) == min_area >= threshold

\* Line 38: the break.
Breaks(min_area, threshold) == min_area > threshold

\* The update with indices that do not wrap: after the first point is removed
\* the area of the last one is left as it was, after the last one that of the
\* first.
RemovePoint_no_wrap(polygon, areas, min_index) ==
    LET p == RemoveAt(polygon, min_index)
        a == RemoveAt(areas, min_index)
        previous_index == IF min_index = 1 THEN 1 ELSE min_index - 1
        next_index == IF min_index > Len(p) THEN Len(p) ELSE min_index
        b == [a EXCEPT ![previous_index] = calculate_triangle_area_at_pos(p, previous_index)]
    IN [polygon |-> p,
        areas |-> [b EXCEPT ![next_index] = calculate_triangle_area_at_pos(p, next_index)]]

\* Lines 42-50: the point is removed and the areas of its neighbours updated.
RemovePoint(polygon, areas, min_index) ==
    LET p == RemoveAt(polygon, min_index)
        a == RemoveAt(areas, min_index)
        previous_index == IF min_index = 1 THEN Len(p) ELSE min_index - 1
        next_index == IF min_index > Len(p) THEN 1 ELSE min_index
        b == [a EXCEPT ![previous_index] = calculate_triangle_area_at_pos(p, previous_index)]
    IN [polygon |-> p,
        areas |-> [b EXCEPT ![next_index] = calculate_triangle_area_at_pos(p, next_index)]]

\* Lines 27-51: the while loop.
RECURSIVE SimplifyLoop(_, _, _)
SimplifyLoop(polygon, areas, threshold) ==
    IF ~LoopRuns(polygon) THEN polygon
    ELSE LET min_index == MinIndex(areas)
         IN IF Breaks(areas[min_index], threshold) THEN polygon
            ELSE LET r == RemovePoint(polygon, areas, min_index)
                 IN SimplifyLoop(r.polygon, r.areas, threshold)

\* fn simplify_polygon
simplify_polygon(polygon, threshold) ==
    IF Len(polygon) < 4 THEN polygon
    ELSE SimplifyLoop(polygon, PrecomputeAreas(polygon), threshold)

\* simplify_polygon, by the step.  `simplifier` holds the locals where the
\* call stands: at the head of the while loop (line 27) or at the return (line
\* 53); beside them the argument of the call, which call of two it is, what
\* the first call was given and returned, and the last removal: the index, and the polygon
\* and the areas before it.
SimplifierIdle == [pc |-> "idle"]

\* Lines 5-24: the early return, or the areas precomputed.
EnterSimplify(polygon, threshold, round, first) ==
    [pc |-> IF Len(polygon) < 4 THEN "return" ELSE "loop",
     input |-> polygon, threshold |-> threshold, polygon |-> polygon,
     areas |-> IF Len(polygon) < 4 THEN <<>> ELSE PrecomputeAreas(polygon),
     round |-> round, first |-> first, removed |-> None]

\* Lines 27-51: one pass of the while loop.
IterateSimplify(st) ==
    IF ~LoopRuns(st.polygon) THEN [st EXCEPT !.pc = "return"]
    ELSE LET min_index == MinIndex(st.areas)
         IN IF Breaks(st.areas[min_index], st.threshold)
            THEN [st EXCEPT !.pc = "return"]
            ELSE LET r == RemovePoint(st.polygon, st.areas, min_index)
                 IN [st EXCEPT !.polygon = r.polygon, !.areas = r.areas,
                               !.removed = Some([index |-> min_index,
                                                 polygon |-> st.polygon,
                                                 areas |-> st.areas])]

(***************************************************************************)
(* Inputs.                                                                 *)
(***************************************************************************)
\* The OSM node ids the model draws, and where each node lies: node 2 lies
\* within MAX_DISTANCE of node 1, node 3 beyond it; the three pairwise
\* distances are whole (an 11-60-61 triangle).  The nodes of the cities lie
\* at the same three places: 4..100 with node 1, 101..200 with node 2, the
\* rest with node 3.
NodeIds == {1, 2, 3}

WorldLocation(id) ==
    CASE id = 1 -> GeoLocation(0, 0)
      [] id = 2 -> GeoLocation(0, -11)
      [] id = 3 -> GeoLocation(60, 0)
      [] id \in 4..100 -> GeoLocation(0, 0)
      [] id \in 101..200 -> GeoLocation(0, -11)
      [] id > 200 -> GeoLocation(60, 0)

\* node_locations of a batch: the nodes it delivers, each at its location.
NodeLocationMaps == {[id \in S |-> WorldLocation(id)] : S \in SUBSET NodeIds}

\* A tag map holding the given keys.
Tags(oneway, highway) ==
    (IF oneway = None THEN <<>> ELSE [oneway |-> oneway[1]])
        @@ (IF highway = None THEN <<>> ELSE [highway |-> highway[1]])

RoadFeature(nodes, tags) == [nodes |-> nodes, tags |-> tags]

RoadFeatures(minLen, onewayValues, highwayValues) ==
    {RoadFeature(nodes, Tags(o, h)) :
        nodes \in SeqsOf(NodeIds, minLen, MaxRoadLen), o \in onewayValues,
        h \in highwayValues}

\* GeoData, as far as update_earth reads it for the traffic graph: the chunks in
\* the order the map yields them, each the road features in their order.
GeoDataOf(nodeMaps, roads) ==
    {[node_locations |-> nl, chunks |-> chunks] :
        nl \in nodeMaps, chunks \in SeqsOf(SeqsOf(roads, 0, MaxChunkRoads), 0, MaxChunks)}

\* The batches of the ingestion specification.
IngestData ==
    GeoDataOf(NodeLocationMaps, RoadFeatures(0, {None, Some("-1")}, {Some("footway")}))

\* The batches of the routing specification: every node is delivered, every
\* road has two members or more.
RouteData ==
    GeoDataOf({[id \in NodeIds |-> WorldLocation(id)]},
              RoadFeatures(2, {None, Some("yes")}, {Some("motorway"), Some("residential")}))

\* OSM ids and planar locations handed to the bare graph API.
ApiIds == {1, 2}

ApiLocations == {Vec2(0, 0), Vec2(300, 400)}

ApiRoadTypes == {"Motorway", "Residential"}

(***************************************************************************)
(* The conversions of tag values, as Results.                              *)
(***************************************************************************)
\* struct BuildingParseError
BuildingParseError == [kind |-> "Err", error |-> "BuildingParseError"]

\* <OneWay as FromStr>::from_str
OneWayFromStr(s) == Ok(ParseOneWay(s))

\* <RoadType as FromStr>::from_str
RoadTypeFromStr(s) == Ok(ParseRoadType(s))

\* <BuildingType as FromStr>::from_str
BuildingTypeFromStr(s) ==
    CASE s = "apartments" -> Ok("Apartments")
      [] s = "barracks" -> Ok("Barracks")
      [] s = "bungalow" -> Ok("Bungalow")
      [] s = "cabin" -> Ok("Cabin")
      [] s = "detached" -> Ok("Detached")
      [] s = "dormitory" -> Ok("Dormitory")
      [] s = "farm" -> Ok("Farm")
      [] s = "hotel" -> Ok("Hotel")
      [] s = "house" -> Ok("House")
      [] s = "houseboat" -> Ok("Houseboat")
      [] s = "residential" -> Ok("Residential")
      [] s = "semidetached_house" -> Ok("SemidetachedHouse")
      [] s = "static_caravan" -> Ok("StaticCaravan")
      [] s = "terrace" -> Ok("Terrace")
      [] s = "commercial" -> Ok("Commercial")
      [] s = "industrial" -> Ok("Industrial")
      [] s = "kiosk" -> Ok("Kiosk")
      [] s = "office" -> Ok("Office")
      [] s = "retail" -> Ok("Retail")
      [] s = "supermarket" -> Ok("Supermarket")
      [] s = "warehouse" -> Ok("Warehouse")
      [] s = "bakehouse" -> Ok("Bakehouse")
      [] s = "bridge" -> Ok("Bridge")
      [] s = "civic" -> Ok("Civic")
      [] s = "college" -> Ok("College")
      [] s = "fire_station" -> Ok("FireStation")
      [] s = "government" -> Ok("Government")
      [] s = "hospital" -> Ok("Hospital")
      [] s = "kindergarten" -> Ok("Kindergarten")
      [] s = "museum" -> Ok("Museum")
      [] s = "public" -> Ok("Public")
      [] s = "school" -> Ok("School")
      [] s = "toilets" -> Ok("Toilets")
      [] s = "train_station" -> Ok("TrainStation")
      [] s = "transportation" -> Ok("Transportation")
      [] s = "university" -> Ok("University")
      [] s = "yes" -> BuildingParseError
      [] OTHER -> Ok("Other")

\* <RoofShape as FromStr>::from_str
RoofShapeFromStr(s) ==
    CASE s = "flat" -> Ok("Flat")
      [] s = "gabled" -> Ok("Gabled")
      [] s = "shed" -> Ok("Shed")
      [] s = "hipped" -> Ok("Hipped")
      [] s = "gambrel" -> Ok("Gambrel")
      [] s = "mansard" -> Ok("Mansard")
      [] OTHER -> Ok("Flat")

\* <BuildingLandUseType as FromStr>::from_str
BuildingLandUseTypeFromStr(s) ==
    CASE s = "commercial" -> Ok("Commercial")
      [] s = "retail" -> Ok("Commercial")
      [] s = "education" -> Ok("Education")
      [] s = "industrial" -> Ok("Industrial")
      [] s = "residential" -> Ok("Residential")
      [] OTHER -> Ok("Unknown")

\* The variants of the three enums of building_type.rs.
BuildingType ==
    {"Apartments", "Barracks", "Bungalow", "Cabin", "Detached", "Dormitory",
     "Farm", "Hotel", "House", "Houseboat", "Residential",
     "SemidetachedHouse", "StaticCaravan", "Terrace", "Commercial",
     "Industrial", "Kiosk", "Office", "Retail", "Supermarket", "Warehouse",
     "Bakehouse", "Bridge", "Civic", "College", "FireStation", "Government",
     "Hospital", "Kindergarten", "Museum", "Public", "School", "Toilets",
     "TrainStation", "Transportation", "University", "Other"}

RoofShape == {"Flat", "Gabled", "Shed", "Hipped", "Gambrel", "Mansard"}

BuildingLandUseType ==
    {"Commercial", "Education", "Industrial", "Residential", "Unknown", "NOTNECESSARY"}

\* Tag values handed to the conversions: every string one of them matches,
\* listed values in another letter case, and strings none of them matches.
TagStrings ==
    {"yes", "true", "1", "no", "false", "0", "", "-1", "reverse", "Yes",
     "alternating", "Motorway", "FOOTWAY", "cycleway", "garage", "skillion",
     "forest", "motorway", "trunk", "primary", "secondary", "tertiary",
     "unclassified", "motorway_link", "trunk_link", "primary_link",
     "secondary_link", "tertiary_link", "footway", "steps", "path", "flat",
     "gabled", "shed", "hipped", "gambrel", "mansard", "education",
     "apartments", "barracks", "bungalow", "cabin", "detached", "dormitory",
     "farm", "hotel", "house", "houseboat", "residential",
     "semidetached_house", "static_caravan", "terrace", "commercial",
     "industrial", "kiosk", "office", "retail", "supermarket", "warehouse",
     "bakehouse", "bridge", "civic", "college", "fire_station",
     "government", "hospital", "kindergarten", "museum", "public", "school",
     "toilets", "train_station", "transportation", "university"}

\* Values of the `oneway` tag: absent, every value the match lists, and values
\* it does not list (one of them a listed value in another letter case).
OnewayTagValues ==
    {None, Some("yes"), Some("true"), Some("1"), Some("no"), Some("false"),
     Some("0"), Some(""), Some("-1"), Some("reverse"), Some("Yes"),
     Some("alternating")}

\* Values of the `highway` tag: absent, listed values in lower and in other
\* letter case, and values the match does not list.
HighwayTagValues ==
    {None, Some("motorway"), Some("Motorway"), Some("residential"),
     Some("footway"), Some("FOOTWAY"), Some("path"), Some("cycleway"), Some("")}

\* The batches of the tag specification: every node is delivered, and the one
\* road 1 -> 2 carries each pair of tag values.
TagData ==
    {[node_locations |-> [id \in NodeIds |-> WorldLocation(id)],
      chunks |-> <<(<<RoadFeature(<<1, 2>>, Tags(o, h))>>)>>] :
        o \in OnewayTagValues, h \in HighwayTagValues}

(***************************************************************************)
(* Documents handed to convert_osm_json.                                   *)
(***************************************************************************)
\* An object holding the fields that are given.
Field(key, value) == IF value = None THEN <<>> ELSE (key :> value[1])

Element(type, id, tags, lon, lat, nodes) ==
    JsonObject(Field("type", type) @@ Field("id", id) @@ Field("tags", tags)
               @@ Field("lon", lon) @@ Field("lat", lat) @@ Field("nodes", nodes))

Document(elements) == JsonObject([elements |-> JsonArray(elements)])

\* Values of each field: absent, well-formed ones, and ill-formed ones.
TypeValues ==
    {None, Some(JsonNumber("PosInt", 1)), Some(JsonString("node")),
     Some(JsonString("way")), Some(JsonString("relation")), Some(JsonString("tree"))}

IdValues ==
    {None, Some(JsonNumber("PosInt", 1)), Some(JsonNumber("PosInt", 2)),
     Some(JsonNumber("NegInt", 0 - 1)), Some(JsonNumber("Float", 1)),
     Some(JsonString("1"))}

TagsValues ==
    {None, Some(JsonObject(<<>>)), Some(JsonObject([name |-> JsonString("x")])),
     Some(JsonObject([name |-> JsonObject([en |-> JsonString("x")])])),
     Some(JsonString("x"))}

\* lon and lat, in steps of longitude and latitude.
LonLatValues ==
    {<<None, None>>,
     <<Some(JsonNumber("PosInt", 20)), Some(JsonNumber("PosInt", 11))>>,
     <<Some(JsonNumber("Float", 60)), Some(JsonNumber("NegInt", 0 - 11))>>,
     <<Some(JsonNumber("PosInt", 20)), None>>,
     <<Some(JsonString("20")), Some(JsonNumber("PosInt", 11))>>}

NodesValues ==
    {None, Some(JsonString("1")), Some(JsonArray(<<>>)),
     Some(JsonArray(<<JsonNumber("PosInt", 1)>>)),
     Some(JsonArray(<<JsonNumber("PosInt", 1), JsonNumber("Float", 2)>>))}

Elements(types, ids, tags, lonlats, nodes) ==
    {Element(t, i, g, l[1], l[2], n) :
        t \in types, i \in ids, g \in tags, l \in lonlats, n \in nodes}

\* Every combination of the field values, and a value that is no object.
AllElements ==
    Elements(TypeValues, IdValues, TagsValues, LonLatValues, NodesValues)
        \cup {JsonString("node")}

\* The elements of the documents that hold several: lon and lat vary on the
\* nodes, the member list on the ways.
SomeIds == IdValues \ {None, Some(JsonNumber("Float", 1)), Some(JsonString("1"))}

SomeTags == TagsValues \ {Some(JsonObject(<<>>)), Some(JsonString("x"))}

SomeElements ==
    Elements({Some(JsonString("node"))}, SomeIds, SomeTags,
             {l \in LonLatValues : l[1] = None \/ (l[2] # None /\ l[1][1].kind = "Number")},
             {None})
        \cup Elements({Some(JsonString("way"))}, SomeIds, SomeTags, {<<None, None>>},
                      {None, Some(JsonArray(<<JsonNumber("PosInt", 1)>>)),
                       Some(JsonArray(<<JsonNumber("PosInt", 1), JsonNumber("Float", 2)>>))})
        \cup Elements({Some(JsonString("relation")), Some(JsonNumber("PosInt", 1))},
                      SomeIds, SomeTags, {<<None, None>>}, {None})
        \cup {JsonString("node")}

\* Documents drawn for their structure.
StructureDocuments ==
    {JsonNull, JsonArray(<<>>), JsonObject(<<>>),
     JsonObject([elements |-> JsonObject(<<>>)])}
        \cup {Document(<<e>>) : e \in AllElements}
        \cup {Document(es) : es \in SeqsOf(SomeElements, 0, MaxElements)}

\* Documents drawn for their features: located nodes 1 and 2 (node 9 is never
\* delivered), then ways with distinct ids, each with some of the classifying
\* tags.
FeatureNode(id) ==
    IF id = 1
    THEN Element(Some(JsonString("node")), Some(JsonNumber("PosInt", 1)), None,
                 Some(JsonNumber("PosInt", 20)), Some(JsonNumber("PosInt", 11)), None)
    ELSE Element(Some(JsonString("node")), Some(JsonNumber("PosInt", 2)), None,
                 Some(JsonNumber("PosInt", 60)), Some(JsonNumber("NegInt", 0 - 11)), None)

FeatureTags ==
    {JsonObject([k \in K |-> JsonString(IF k = "natural" THEN w ELSE "yes")]) :
        K \in SUBSET {"building", "waterway", "highway", "landuse", "natural"},
        w \in {"water", "wood"}}

FeatureWays(id, tags) ==
    {Element(Some(JsonString("way")), Some(JsonNumber("PosInt", id)), Some(g), None, None,
             Some(JsonArray([i \in DOMAIN ns |-> JsonNumber("PosInt", ns[i])]))) :
        g \in tags, ns \in SeqsOf({1, 2, 9}, 0, MaxWayNodes)}

\* Tag maps with one classifying key at most.
SingleTags == {g \in FeatureTags : Cardinality(DOMAIN g.object) <= 1}

FeatureDocuments ==
    {Document(ns \o <<w>>) :
        ns \in {<<>>, <<FeatureNode(1)>>, <<FeatureNode(2)>>,
                <<FeatureNode(1), FeatureNode(2)>>},
        w \in FeatureWays(7, FeatureTags)}
      \cup (IF MaxWays >= 2
            THEN {Document(<<FeatureNode(1), FeatureNode(2), w, v>>) :
                    w \in FeatureWays(7, SingleTags), v \in FeatureWays(8, SingleTags)}
            ELSE {})

OsmDocuments == StructureDocuments \cup FeatureDocuments

(***************************************************************************)
(* Polygons handed to simplify_polygon.                                    *)
(***************************************************************************)
Points == {Vec2(x, y) : x \in 0..MaxCoordinate, y \in 0..MaxCoordinate}

\* The corners of the square of side MaxCoordinate, the midpoint of its lower
\* side and its centre.
SquarePoints ==
    {p \in Points : (p.x # 1 /\ p.y # 1) \/ p = Vec2(1, 0) \/ p = Vec2(1, 1)}

\* Points of the two lower rows.
LowPoints == {p \in Points : p.y <= 1 /\ p # Vec2(1, 1)}

\* Every polygon of four points or fewer, those of five over SquarePoints and
\* the longer ones over LowPoints.
Polygons ==
    SeqsOf(Points, 0, 4) \cup SeqsOf(SquarePoints, 5, 5)
        \cup SeqsOf(LowPoints, 6, MaxPolygonLen)

\* Polygons walked step by step: short ones, those of five and six points.
StepPolygons ==
    SeqsOf(SquarePoints, 3, 4) \cup SeqsOf(SquarePoints, 5, 5)
        \cup SeqsOf(LowPoints, 6, MaxPolygonLen)

\* Thresholds, in halves: none, one unit square, and more than any triangle
\* of Points spans.
Generous == 4 * MaxCoordinate * MaxCoordinate

Thresholds == {0, 2, Generous}

(***************************************************************************)
(* State.                                                                  *)
(***************************************************************************)
SearchIdle == [pc |-> "idle", queries |-> 0]

Init ==
    /\ traffic_graph = DefaultTrafficGraph
    /\ offset_resource = DefaultOffset
    /\ last = [op |-> "init", ingested |-> 0]
    /\ search = SearchIdle
    /\ simplifier = SimplifierIdle
    /\ tasks = <<>>
    /\ agents = <<>>
    /\ panicked = FALSE

(***************************************************************************)
(* The bare TrafficGraph API.                                              *)
(***************************************************************************)
\* The operation before the last one, and the graph it was called on.
Prev ==
    IF last.op = "init"
    THEN [op |-> "init", before |-> DefaultTrafficGraph]
    ELSE [op |-> last.op, before |-> last.before]

AddNode(osm_id, location) ==
    \E r \in {add_node(traffic_graph, osm_id, location)} :
       /\ traffic_graph' = r.g
       /\ last' = [op |-> "add_node", before |-> traffic_graph, osm_id |-> osm_id,
                   location |-> location, ret |-> r.index, prev |-> Prev]
       /\ UNCHANGED <<offset_resource, search, simplifier, tasks, agents, panicked>>

AddConnection(from_index, from_location, to_index, to_location, oneway, road_type) ==
    /\ Len(traffic_graph.edges) + (IF oneway = "No" THEN 2 ELSE 1) <= MaxEdges
    /\ traffic_graph' = add_connection(traffic_graph, from_index, from_location,
                                       to_index, to_location, oneway, road_type)
    /\ last' = [op |-> "add_connection", before |-> traffic_graph,
                call |-> AddConnectionCall(from_index, from_location, to_index,
                                           to_location, oneway, road_type)]
    /\ UNCHANGED <<offset_resource, search, simplifier, tasks, agents, panicked>>

Reset ==
    /\ traffic_graph' = reset(traffic_graph)
    /\ last' = [op |-> "reset", before |-> traffic_graph]
    /\ UNCHANGED <<offset_resource, search, simplifier, tasks, agents, panicked>>

NextGraph ==
    \/ \E id \in ApiIds, l \in ApiLocations : AddNode(id, l)
    \/ \E a \in ApiIds, la \in ApiLocations, b \in ApiIds, lb \in ApiLocations,
          o \in OneWay, t \in ApiRoadTypes : AddConnection(a, la, b, lb, o, t)
    \/ Reset

SpecGraph == Init /\ [][NextGraph]_vars

(***************************************************************************)
(* Compute tasks and agents.  A task is the entity spawn_compute_task      *)
(* makes: what the computation was given, how far it is (running, then     *)
(* finished with its result in the task or channel, then received), and    *)
(* whether the entity still has its AsyncComputation component.  Beside    *)
(* them, as history: how often the result went to the callback and whether *)
(* the task was polled after that.                                         *)
(***************************************************************************)
spawn_compute_task(kind, batch, chunk, arguments) ==
    [kind |-> kind, batch |-> batch, chunk |-> chunk, arguments |-> arguments,
     status |-> "running", result |-> None, component |-> TRUE,
     delivered |-> 0, polled_after |-> FALSE]

\* The four computations update_earth spawns per chunk, in their order.
ChunkTaskKinds ==
    <<"BuildingCreation", "RoadCreation", "RiverCreation", "TerrainCreation">>

TaskKinds == Range(ChunkTaskKinds) \cup {"AgentCreation"}

\* The tasks of the loop over event.data.chunks.
ChunkTasks(chunks, batch) ==
    [k \in 1..(4 * Len(chunks)) |->
        spawn_compute_task(ChunkTaskKinds[((k - 1) % 4) + 1], batch,
                           ((k - 1) \div 4) + 1, None)]

\* diff with the quotient rounded up.
Diff_rounds_up(old_traffic_graph_size, size) ==
    IF old_traffic_graph_size > size THEN 0
    ELSE (size - old_traffic_graph_size + 99) \div 100

\* diff: an agent per hundred vertices the graph has grown by.
Diff(old_traffic_graph_size, size) ==
    IF old_traffic_graph_size > size THEN 0
    ELSE (size - old_traffic_graph_size) \div 100

\* The while loop over agent_spawns_left: the spawns of each task.
RECURSIVE AgentSpawnsLeft(_)
AgentSpawnsLeft(agent_spawns_left) ==
    IF agent_spawns_left > 0
    THEN <<Min(100, agent_spawns_left)>> \o AgentSpawnsLeft(agent_spawns_left - 100)
    ELSE <<>>

AgentSpawns(old_traffic_graph_size, size) ==
    AgentSpawnsLeft(Diff(old_traffic_graph_size, size))

\* graph_arc cloned ahead of the loop over the chunks.
GraphArc_before_build(before, built) == before

\* graph_arc: the clone of the traffic graph, taken after the loop over the
\* chunks.
GraphArc(before, built) == built

\* The agent tasks of one event: before is the graph the handler found, built
\* the graph after the loop over the chunks.
AgentTasks(before, built, batch) ==
    LET spawns == AgentSpawns(get_size(before), get_size(built))
    IN [k \in 1..Len(spawns) |->
           spawn_compute_task("AgentCreation", batch, 0,
                              [spawns |-> spawns[k],
                               graph |-> GraphArc(before, built)])]

\* delete_agents: every Agent entity is despawned.
delete_agents(agents_before) == <<>>

\* TrafficGraph::get_random_node_index, with random the number drawn.
get_random_node_index(g, random) ==
    IF get_size(g) = 0 THEN Panic ELSE (random % get_size(g)) + 1

\* TrafficGraph::get_road_type
get_road_type(g, from_index, to_index) ==
    LET To(e) == e.to = to_index
        found == SelectSeq(OutgoingEdges(g, from_index), To)
    IN IF found = <<>> THEN "NotCovered" ELSE found[1].road_type

\* The paths astar can return from s on: one per order in which entries of
\* equal score leave the heap.
RECURSIVE AstarResults(_)
AstarResults(s) ==
    IF s.pc # "running" THEN {s.result}
    ELSE UNION {AstarResults(AstarIterate(s, i)) :
                   i \in (IF s.visit_next = <<>> THEN {0} ELSE MinEntries(s.visit_next))}

\* TrafficGraph::get_shortest_path, its possible results.
get_shortest_path(g, from_index, to_index, agent_type) ==
    AstarResults(AstarStart(g, from_index, to_index, agent_type, 0))

\* What create_agents draws for one agent: two random numbers and the type.
RandomValues == {1, 198, 199}

Draws == [start : RandomValues, end : RandomValues, agent_type : AgentType]

\* One pass of the loop of create_agents: the agent pushed, or nothing.
CreateAgent(graph, draw) ==
    LET start_node == get_random_node_index(graph, draw.start)
        end_node == get_random_node_index(graph, draw.end)
    IN {IF maybe_path = None THEN <<>>
        ELSE <<[location |-> get_node_location(graph, start_node),
                agent |-> [agent_type |-> draw.agent_type,
                           destination |-> end_node,
                           path |-> maybe_path[1],
                           path_index |-> 0,
                           next_path_location_road |-> None]]>> :
        maybe_path \in get_shortest_path(graph, start_node, end_node, draw.agent_type)}

\* What a computation that ran to its end leaves for the poll.
Returned(value) == [kind |-> "Returned", value |-> value]

RECURSIVE CreateAgentsFrom(_, _, _)
CreateAgentsFrom(graph, draws, i) ==
    IF i > Len(draws) THEN {<<>>}
    ELSE {a \o rest : a \in CreateAgent(graph, draws[i]),
                      rest \in CreateAgentsFrom(graph, draws, i + 1)}

\* create_agents, its possible results for the given draws: on an empty graph
\* the first draw panics (a remainder by zero).
create_agents(number_of_agents, graph, draws) ==
    IF number_of_agents > 0 /\ get_size(graph) = 0 THEN {Panic}
    ELSE {Returned(created) : created \in CreateAgentsFrom(graph, draws, 1)}

\* What the computation of a task can return.
ComputationResults(task) ==
    IF task.kind = "AgentCreation"
    THEN UNION {create_agents(task.arguments.spawns, task.arguments.graph, draws) :
                   draws \in [1..task.arguments.spawns -> Draws]}
    ELSE {Returned(task.kind)}

\* The body of the loop of handle_compute_tasks with the component left on
\* the entity.
PollTask_keeps_component(task) ==
    IF task.status = "finished"
    THEN [task EXCEPT !.status = "received", !.delivered = @ + 1]
    ELSE IF task.status = "received"
    THEN [task EXCEPT !.polled_after = TRUE]
    ELSE task

\* The body of the loop of handle_compute_tasks for one entity of the query:
\* a result that has arrived goes to the callback and the component is
\* removed.
PollTask(task) ==
    IF task.status = "finished"
    THEN [task EXCEPT !.status = "received", !.delivered = @ + 1,
                      !.component = FALSE]
    ELSE IF task.status = "received"
    THEN [task EXCEPT !.polled_after = TRUE]
    ELSE task

\* handle_compute_tasks for the computations of one kind: the entities after
\* it.
handle_compute_tasks(all_tasks, kind) ==
    [i \in DOMAIN all_tasks |->
        IF all_tasks[i].kind = kind /\ all_tasks[i].component
        THEN PollTask(all_tasks[i]) ELSE all_tasks[i]]

\* The callback of update_agent_generation_tasks: an Agent entity per agent
\* of the result.  task is history: the task the agent came from.
SpawnAgents(result, task) ==
    [k \in 1..Len(result) |-> result[k].agent @@ [task |-> task]]

\* The Agent entities the callbacks of one run of
\* update_agent_generation_tasks spawn, from task i on.
RECURSIVE SpawnedAgents(_, _)
SpawnedAgents(all_tasks, i) ==
    IF i > Len(all_tasks) THEN <<>>
    ELSE (IF /\ all_tasks[i].kind = "AgentCreation"
             /\ all_tasks[i].component
             /\ all_tasks[i].status = "finished"
          THEN SpawnAgents(all_tasks[i].result[1], i) ELSE <<>>)
         \o SpawnedAgents(all_tasks, i + 1)

\* The body of the loop of update_agents for one agent: arrives tells whether
\* the agent reaches the next node in this frame.  The path and the cache
\* after it, or the panic of an index outside the graph.
update_agent(g, agent, arrives) ==
    IF agent.path_index >= Len(agent.path) - 1
    THEN [agent EXCEPT !.destination = agent.path[1],
                       !.path = Reverse(agent.path),
                       !.path_index = 0]
    ELSE LET current_node == agent.path[agent.path_index + 1]
             next_node == agent.path[agent.path_index + 2]
             read == {current_node, next_node}
                        \cup (IF agent.path_index + 3 <= Len(agent.path)
                              THEN {agent.path[agent.path_index + 3]} ELSE {})
         IN IF /\ agent.next_path_location_road = None
               /\ ~(read \subseteq 1..get_size(g))
            THEN Panic
            ELSE IF arrives
            THEN [agent EXCEPT !.path_index = @ + 1, !.next_path_location_road = None]
            ELSE IF agent.next_path_location_road = None
            THEN [agent EXCEPT !.next_path_location_road =
                     Some([location |-> get_node_location(g, next_node),
                           road_type |-> get_road_type(g, current_node, next_node)])]
            ELSE agent

\* update_agents: every agent after the frame.
update_agents(g, all_agents, arrives) ==
    [i \in DOMAIN all_agents |-> update_agent(g, all_agents[i], arrives[i])]

(***************************************************************************)
(* Ingestion: the system update_earth, one GeoDataEvent per step.          *)
(***************************************************************************)
Ingested == IF last.op = "init" THEN 0 ELSE last.ingested

UpdateEarth(data) ==
    /\ Ingested < MaxIngest
    /\ \E median \in Medians(data.node_locations) :
          \E r \in {update_earth(traffic_graph, offset_resource, data, median)} :
             /\ traffic_graph' = r.g
             /\ offset_resource' = r.offset
             /\ last' = [op |-> "update_earth", ingested |-> Ingested + 1,
                         before |-> traffic_graph, offset_before |-> offset_resource,
                         data |-> data, median |-> median, calls |-> r.calls,
                         recentred |-> r.recentred,
                         offset_candidate |-> r.offset_candidate,
                         old_traffic_graph_size |-> r.old_traffic_graph_size]
             /\ tasks' = tasks \o ChunkTasks(data.chunks, Ingested + 1)
                                \o AgentTasks(traffic_graph, r.g, Ingested + 1)
             /\ agents' = IF r.recentred THEN delete_agents(agents) ELSE agents
    /\ UNCHANGED <<search, simplifier, panicked>>

Next == \E data \in IngestData : UpdateEarth(data)

(***************************************************************************)
(* Routing: get_shortest_path on the graph the ingestions built, with      *)
(* valid handles.  The call borrows the graph: no ingestion runs during it.*)
(***************************************************************************)
GetShortestPath(from_index, to_index, agent_type) ==
    /\ search.pc # "running"
    /\ search.queries < MaxQueries
    /\ from_index \in 1..get_size(traffic_graph)
    /\ to_index \in 1..get_size(traffic_graph)
    /\ search' = AstarStart(traffic_graph, from_index, to_index, agent_type,
                            search.queries + 1)
    /\ UNCHANGED <<traffic_graph, offset_resource, last, simplifier, tasks, agents, panicked>>

AstarStep ==
    /\ search.pc = "running"
    /\ \E i \in (IF search.visit_next = <<>> THEN {0} ELSE MinEntries(search.visit_next)) :
          search' = AstarIterate(search, i)
    /\ UNCHANGED <<traffic_graph, offset_resource, last, simplifier, tasks, agents, panicked>>

NextRoute ==
    \/ search.pc = "idle" /\ \E data \in RouteData : UpdateEarth(data)
    \/ \E a \in NodeIds, b \in NodeIds, t \in AgentType : GetShortestPath(a, b, t)
    \/ AstarStep

SpecRoute == Init /\ [][NextRoute]_vars

(***************************************************************************)
(* Parsing: convert_osm_json applied to a document.  The function is pure:  *)
(* a behaviour applies it once.                                            *)
(***************************************************************************)
ConvertOsmJson(json) ==
    /\ last' = [op |-> "convert_osm_json", json |-> json,
                result |-> convert_osm_json(json)]
    /\ UNCHANGED <<traffic_graph, offset_resource, search, simplifier, tasks, agents, panicked>>

NextParse == last.op = "init" /\ \E json \in OsmDocuments : ConvertOsmJson(json)

SpecParse == Init /\ [][NextParse]_vars

(***************************************************************************)
(* Simplification: simplify_polygon applied to a polygon, once.            *)
(***************************************************************************)
SimplifyPolygon(polygon, threshold) ==
    /\ last' = [op |-> "simplify_polygon", polygon |-> polygon, threshold |-> threshold,
                result |-> simplify_polygon(polygon, threshold)]
    /\ UNCHANGED <<traffic_graph, offset_resource, search, simplifier, tasks, agents, panicked>>

NextSimplify ==
    last.op = "init" /\ \E polygon \in Polygons, threshold \in Thresholds :
                            SimplifyPolygon(polygon, threshold)

SpecSimplify == Init /\ [][NextSimplify]_vars

(***************************************************************************)
(* Simplification by the step: a call of simplify_polygon, its loop, and a   *)
(* second call on what the first returned, under the same threshold.        *)
(***************************************************************************)
SimplifyCall(polygon, threshold) ==
    /\ simplifier' = EnterSimplify(polygon, threshold, 1, None)
    /\ UNCHANGED <<traffic_graph, offset_resource, last, search, tasks, agents, panicked>>

SimplifyStart ==
    /\ simplifier.pc = "idle"
    /\ \E polygon \in StepPolygons, threshold \in Thresholds :
          SimplifyCall(polygon, threshold)

SimplifyIterate ==
    /\ simplifier.pc = "loop"
    /\ simplifier' = IterateSimplify(simplifier)
    /\ UNCHANGED <<traffic_graph, offset_resource, last, search, tasks, agents, panicked>>

SimplifyAgain ==
    /\ simplifier.pc = "return"
    /\ simplifier.round = 1
    /\ simplifier' = EnterSimplify(simplifier.polygon, simplifier.threshold, 2,
                                   Some([input |-> simplifier.input,
                                         result |-> simplifier.polygon]))
    /\ UNCHANGED <<traffic_graph, offset_resource, last, search, tasks, agents, panicked>>

NextSimplifySteps == SimplifyStart \/ SimplifyIterate \/ SimplifyAgain

SpecSimplifySteps == Init /\ [][NextSimplifySteps]_vars

(***************************************************************************)
(* Ingestion of roads that differ in their tags only.                      *)
(***************************************************************************)
NextTags == \E data \in TagData : UpdateEarth(data)

SpecTags == Init /\ [][NextTags]_vars

(***************************************************************************)
(* The conversions of tag values: one call per behaviour.                  *)
(***************************************************************************)
FromStr(type, s, result) ==
    /\ last' = [op |-> "from_str", type |-> type, s |-> s, result |-> result]
    /\ UNCHANGED <<traffic_graph, offset_resource, search, simplifier, tasks, agents, panicked>>

ParseOneWayTag ==
    /\ last.op = "init"
    /\ \E s \in TagStrings : FromStr("OneWay", s, OneWayFromStr(s))

ParseRoadTypeTag ==
    /\ last.op = "init"
    /\ \E s \in TagStrings : FromStr("RoadType", s, RoadTypeFromStr(s))

ParseBuildingTypeTag ==
    /\ last.op = "init"
    /\ \E s \in TagStrings : FromStr("BuildingType", s, BuildingTypeFromStr(s))

ParseRoofShapeTag ==
    /\ last.op = "init"
    /\ \E s \in TagStrings : FromStr("RoofShape", s, RoofShapeFromStr(s))

ParseBuildingLandUseTypeTag ==
    /\ last.op = "init"
    /\ \E s \in TagStrings :
          FromStr("BuildingLandUseType", s, BuildingLandUseTypeFromStr(s))

NextConvert ==
    \/ ParseOneWayTag
    \/ ParseRoadTypeTag
    \/ ParseBuildingTypeTag
    \/ ParseRoofShapeTag
    \/ ParseBuildingLandUseTypeTag

SpecConvert == Init /\ [][NextConvert]_vars

Spec == Init /\ [][Next]_vars

(***************************************************************************)
(* The city: update_earth beside the computations it spawns, the systems   *)
(* that poll them and update_agents.                                       *)
(***************************************************************************)
\* The ids a..b in their order.
Interval(a, b) == [i \in 1..(b - a + 1) |-> a + i - 1]

OneWayStreet(nodes) == RoadFeature(nodes, Tags(Some("yes"), Some("residential")))

\* The ids a..b as one-way streets of MaxStreetLen nodes each, the last one
\* of what is left.
MaxStreetLen == 10

Streets(a, b) ==
    [k \in 1..((b - a + MaxStreetLen) \div MaxStreetLen) |->
        OneWayStreet(Interval(a + (k - 1) * MaxStreetLen,
                              Min(b, a + k * MaxStreetLen - 1)))]

\* A city of a hundred nodes in two chunks, one of a hundred more next to it,
\* and a village far from both.
CityA ==
    [node_locations |-> [id \in 1..100 |-> WorldLocation(id)],
     chunks |-> <<<<OneWayStreet(<<1, 2>>), OneWayStreet(Interval(3, 10))>>,
                  Streets(11, 100)>>]

CityB ==
    [node_locations |-> [id \in 101..200 |-> WorldLocation(id)],
     chunks |-> <<<<OneWayStreet(<<101, 102>>), OneWayStreet(Interval(103, 110))>>,
                  Streets(111, 200)>>]

Village ==
    [node_locations |-> [id \in 201..202 |-> WorldLocation(id)],
     chunks |-> <<<<OneWayStreet(<<201, 202>>)>>>>]

AgentData == {CityA, CityB, Village}

IngestAgentData ==
    /\ ~panicked
    /\ \E data \in AgentData : UpdateEarth(data)

\* The computation of task i returns: its result waits in the task or channel.
FinishComputation(i) ==
    /\ i \in DOMAIN tasks
    /\ tasks[i].status = "running"
    /\ \E result \in ComputationResults(tasks[i]) :
          IF result = Panic
          THEN panicked' = TRUE /\ UNCHANGED tasks
          ELSE /\ tasks' = [tasks EXCEPT ![i].status = "finished",
                                         ![i].result = Some(result.value)]
               /\ UNCHANGED panicked
    /\ UNCHANGED <<traffic_graph, offset_resource, last, search, simplifier, agents>>

FinishAgentCreation ==
    /\ ~panicked
    /\ \E i \in DOMAIN tasks : tasks[i].kind = "AgentCreation" /\ FinishComputation(i)

\* A system update_*_generation_tasks: handle_compute_tasks with its callback.
HandleComputeTasks(kind) ==
    /\ tasks' = handle_compute_tasks(tasks, kind)
    /\ agents' = IF kind = "AgentCreation"
                 THEN agents \o SpawnedAgents(tasks, 1) ELSE agents
    /\ UNCHANGED <<traffic_graph, offset_resource, last, search, simplifier, panicked>>

UpdateAgentGenerationTasks == ~panicked /\ HandleComputeTasks("AgentCreation")

\* The system update_agents, for one frame.
UpdateAgents ==
    /\ ~panicked
    /\ agents # <<>>
    /\ \E arrives \in [DOMAIN agents -> BOOLEAN] :
          \E updated \in {update_agents(traffic_graph, agents, arrives)} :
             IF \E i \in DOMAIN updated : updated[i] = Panic
             THEN panicked' = TRUE /\ UNCHANGED agents
             ELSE agents' = updated /\ UNCHANGED panicked
    /\ UNCHANGED <<traffic_graph, offset_resource, last, search, simplifier, tasks>>

NextAgents ==
    \/ IngestAgentData
    \/ FinishAgentCreation
    \/ UpdateAgentGenerationTasks
    \/ UpdateAgents

SpecAgents == Init /\ [][NextAgents]_vars

(***************************************************************************)
(* The computations of one event, each finishing at its own time, beside   *)
(* the five systems that poll them.  The systems are in the Update         *)
(* schedule: each runs once a frame, hence the weak fairness on them.      *)
(***************************************************************************)
\* A town: the hundred nodes of the city in a single chunk.
Town ==
    [node_locations |-> [id \in 1..100 |-> WorldLocation(id)],
     chunks |-> <<<<OneWayStreet(<<1, 2>>), OneWayStreet(Interval(3, 10))>>
                    \o Streets(11, 100)>>]

TaskData == {Town, Village}

MaxTaskBatches == 1

\* The most tasks the events of TaskData spawn: those of its one chunk, and
\* an agent task.
MaxTasks == MaxTaskBatches * (Len(ChunkTaskKinds) + 1)

IngestTaskData ==
    /\ ~panicked
    /\ Ingested < MaxTaskBatches
    /\ \E data \in TaskData : UpdateEarth(data)

FinishAnyComputation ==
    /\ ~panicked
    /\ \E i \in DOMAIN tasks : FinishComputation(i)

UpdateBuildingGenerationTasks == ~panicked /\ HandleComputeTasks("BuildingCreation")

UpdateRoadGenerationTasks == ~panicked /\ HandleComputeTasks("RoadCreation")

UpdateTerrainGenerationTasks == ~panicked /\ HandleComputeTasks("TerrainCreation")

UpdateRiverGenerationTasks == ~panicked /\ HandleComputeTasks("RiverCreation")

PollAgentGenerationTasks == ~panicked /\ HandleComputeTasks("AgentCreation")

NextTasks ==
    \/ IngestTaskData
    \/ FinishAnyComputation
    \/ UpdateBuildingGenerationTasks
    \/ UpdateRoadGenerationTasks
    \/ UpdateTerrainGenerationTasks
    \/ UpdateRiverGenerationTasks
    \/ PollAgentGenerationTasks

SpecTasks == Init /\ [][NextTasks]_vars

SpecTasksFair ==
    /\ SpecTasks
    /\ WF_vars(UpdateBuildingGenerationTasks)
    /\ WF_vars(UpdateRoadGenerationTasks)
    /\ WF_vars(UpdateTerrainGenerationTasks)
    /\ WF_vars(UpdateRiverGenerationTasks)
    /\ WF_vars(PollAgentGenerationTasks)

(***************************************************************************)
(* The sizes of the traffic graph along update_earth, for one event: the   *)
(* size found, whether the handler recentres, and how many vertices the    *)
(* loop over the chunks adds.                                              *)
(***************************************************************************)
SizesBefore == {0, 2, 100, 150, 10000, 25000}

SizesAdded == {0, 1, 99, 100, 101, 199, 200, 10000, 10099, 25000, 25099}

\* The size of the graph at line 214: delete_all empties it, the chunks add
\* to it.
SizeAfterChunks(before, recentred, added) ==
    (IF recentred THEN 0 ELSE before) + added

\* A graph of the given size, its vertices in one place and no roads; the
\* draw of an agent that starts and ends at its first vertex.
BareGraph(size) ==
    [nodes |-> [i \in 1..size |-> Vec2(0, 0)], edges |-> <<>>, hashmap |-> <<>>]

FirstDraw == [start |-> 0, end |-> 0, agent_type |-> "Car"]

\* Lines 99-100 and 214-234 on the sizes: the spawns of the agent tasks, and
\* what create_agents returns on the graph for the first agent of a task.
SpawnAgentTasks(before, recentred, added) ==
    /\ last.op = "init"
    /\ \E size \in {SizeAfterChunks(before, recentred, added)} :
          last' = [op |-> "spawn_agent_tasks", old_traffic_graph_size |-> before,
                   recentred |-> recentred, size |-> size,
                   spawns |-> AgentSpawns(before, size),
                   created |-> IF AgentSpawns(before, size) = <<>> THEN {}
                               ELSE create_agents(1, BareGraph(size), <<FirstDraw>>)]
    /\ UNCHANGED <<traffic_graph, offset_resource, search, simplifier, tasks, agents, panicked>>

NextSpawn ==
    \E before \in SizesBefore, recentred \in BOOLEAN, added \in SizesAdded :
        SpawnAgentTasks(before, recentred, added)

SpecSpawn == Init /\ [][NextSpawn]_vars

(***************************************************************************)
(* Claims about the bare TrafficGraph API (SpecGraph).                     *)
(***************************************************************************)
IdMapInjective(g) ==
    \A a, b \in DOMAIN g.hashmap : g.hashmap[a] = g.hashmap[b] => a = b

\* C4: after any sequence of add_node, add_connection and reset calls the id
\* map is injective and covers every vertex (distinct ids have distinct
\* handles, there are as many vertices as mapped ids), and add_node with an id
\* that is already mapped returns the existing handle, appends no vertex and
\* leaves the stored location as it was.
C4_IdMapInjectiveAndCovering ==
    /\ IdMapInjective(traffic_graph)
    /\ {traffic_graph.hashmap[id] : id \in DOMAIN traffic_graph.hashmap}
          = 1..Len(traffic_graph.nodes)
    /\ Cardinality(DOMAIN traffic_graph.hashmap) = get_size(traffic_graph)
    /\ (last.op = "add_node" /\ last.osm_id \in DOMAIN last.before.hashmap) =>
          /\ last.ret = last.before.hashmap[last.osm_id]
          /\ get_size(traffic_graph) = get_size(last.before)
          /\ traffic_graph.nodes = last.before.nodes
          /\ traffic_graph.hashmap = last.before.hashmap

\* add_node was called with a mapped id and another location than the stored
\* one, on a graph of two vertices.
C4_Witness ==
    /\ last.op = "add_node"
    /\ last.osm_id \in DOMAIN last.before.hashmap
    /\ last.before.nodes[last.before.hashmap[last.osm_id]] # last.location
    /\ get_size(traffic_graph) = 2

\* How often e occurs in the sequence s.
Count(e, s) == Cardinality({i \in DOMAIN s : s[i] = e})

\* d is the length of a - b, to the unit.
IsEuclidean(d, a, b) ==
    LET sq == (a.x - b.x) * (a.x - b.x) + (a.y - b.y) * (a.y - b.y)
    IN d >= 0 /\ d * d <= sq /\ sq < (d + 1) * (d + 1)

C10_ResetClearsEverything ==
    /\ last.op = "reset" =>
          /\ get_size(traffic_graph) = 0
          /\ traffic_graph.edges = <<>>
          /\ \A id \in ApiIds : get_index(traffic_graph, id) = None
    /\ (last.op = "add_node" /\ last.prev.op = "reset") =>
          /\ last.ret = add_node(DefaultTrafficGraph, last.osm_id, last.location).index
          /\ get_size(traffic_graph) = 1
          /\ get_node_location(traffic_graph, last.ret) = last.location
          /\ get_index(traffic_graph, last.osm_id) = Some(last.ret)
          /\ \A id \in ApiIds \ {last.osm_id} : get_index(traffic_graph, id) = None

\* add_node follows a reset of a graph that held the same id, a second vertex
\* and an edge.
C10_Witness ==
    /\ last.op = "add_node"
    /\ last.prev.op = "reset"
    /\ last.osm_id \in DOMAIN last.prev.before.hashmap
    /\ get_size(last.prev.before) = 2
    /\ Len(last.prev.before.edges) > 0

(***************************************************************************)
(* Claims about ingestion (Spec).                                          *)
(***************************************************************************)
RECURSIVE Flatten(_)
Flatten(ss) == IF ss = <<>> THEN <<>> ELSE Head(ss) \o Flatten(Tail(ss))

\* The road features of the last batch, in the order they were walked.
LastRoads == Flatten(last.data.chunks)

\* The member ids of a road that resolve in node_locations, in list order.
Resolved(road, node_locations) ==
    LET Resolves(id) == id \in DOMAIN node_locations
    IN SelectSeq(road.nodes, Resolves)

\* The projection of a node of the last batch under the offset now active.
LastProjected(id) == project(last.data.node_locations[id], offset_resource)

\* The direction a road's `oneway` tag stands for.
DirectionOf(road) ==
    IF "oneway" \notin DOMAIN road.tags THEN "No"
    ELSE IF road.tags["oneway"] \in {"yes", "true", "1"} THEN "Yes"
    ELSE IF road.tags["oneway"] \in {"-1", "reverse"} THEN "Reversed"
    ELSE "No"

\* C6: for each road feature with r1..rk the member ids that resolve, in list
\* order, update_traffic_graph calls add_connection exactly for the k-1 pairs
\* (r_i, r_i+1) in that order; ids that do not resolve are skipped without
\* breaking the chain and create no vertex; a road with k = 1 makes one
\* add_node call and adds no edge; a road with k = 0 adds nothing.
C6_ChainOverResolvableNodes ==
    last.op = "update_earth" =>
        /\ Len(last.calls) = Len(LastRoads)
        /\ \A i \in DOMAIN LastRoads :
              LET road == LastRoads[i]
                  r == Resolved(road, last.data.node_locations)
                  k == Len(r)
                  IsConnection(c) == c.op = "add_connection"
                  IsNode(c) == c.op = "add_node"
                  connections == SelectSeq(last.calls[i], IsConnection)
                  nodes == SelectSeq(last.calls[i], IsNode)
              IN /\ Len(connections) = (IF k = 0 THEN 0 ELSE k - 1)
                 /\ \A j \in DOMAIN connections :
                       /\ connections[j].from = r[j]
                       /\ connections[j].to = r[j + 1]
                       /\ connections[j].from_location = LastProjected(r[j])
                       /\ connections[j].to_location = LastProjected(r[j + 1])
                       /\ connections[j].oneway = DirectionOf(road)
                 /\ Len(nodes) = k
                 /\ \A j \in DOMAIN nodes : nodes[j].id = r[j]
                 /\ k = 0 => last.calls[i] = <<>>
        /\ LET start == IF last.recentred THEN {} ELSE DOMAIN last.before.hashmap
               resolved == UNION {Range(Resolved(LastRoads[i], last.data.node_locations)) :
                                     i \in DOMAIN LastRoads}
               edgesBefore == IF last.recentred THEN 0 ELSE Len(last.before.edges)
               added(i) ==
                   LET k == Len(Resolved(LastRoads[i], last.data.node_locations))
                   IN (IF k = 0 THEN 0 ELSE k - 1)
                        * (IF DirectionOf(LastRoads[i]) = "No" THEN 2 ELSE 1)
           IN /\ DOMAIN traffic_graph.hashmap = start \cup resolved
              /\ get_size(traffic_graph) = Cardinality(start \cup resolved)
              /\ Len(LastRoads) = 1 =>
                    Len(traffic_graph.edges) = edgesBefore + added(1)
              /\ Len(LastRoads) = 0 => Len(traffic_graph.edges) = edgesBefore

\* A road whose middle id does not resolve was walked: its two resolvable ends
\* were connected.
C6_Witness ==
    /\ last.op = "update_earth"
    /\ \E i \in DOMAIN LastRoads :
          LET road == LastRoads[i]
          IN /\ Len(road.nodes) = 3
             /\ road.nodes[1] \in DOMAIN last.data.node_locations
             /\ road.nodes[2] \notin DOMAIN last.data.node_locations
             /\ road.nodes[3] \in DOMAIN last.data.node_locations
             /\ road.nodes[1] # road.nodes[3]
             /\ Len(last.calls[i]) = 3
             /\ last.calls[i][3].from = road.nodes[1]
             /\ last.calls[i][3].to = road.nodes[3]

\* The candidate offset of the last batch, and whether it lies farther than
\* MAX_DISTANCE (0.0832... of the unscaled unit) from the offset before it.
LastCandidate == project_no_scale(last.median)

LastBeyondThreshold ==
    \/ ~last.offset_before.finite
    \/ LET dx == LastCandidate.x - last.offset_before.x
           dy == LastCandidate.y - last.offset_before.y
           tenths == (MAX_DISTANCE_E5 * UnscaledOne) \div 10000
       IN (dx * dx + dy * dy) * 100 > tenths * tenths

\* The ids of the last batch that its roads hold and that resolve.
LastResolved ==
    UNION {Range(Resolved(LastRoads[i], last.data.node_locations)) : i \in DOMAIN LastRoads}

\* C7 as stated: a batch whose median projects farther than the threshold from
\* the current offset leaves, once its ingestion has finished, a traffic graph
\* of size 0 and an offset equal to the candidate.
C7_Original ==
    (last.op = "update_earth" /\ LastBeyondThreshold) =>
        /\ get_size(traffic_graph) = 0
        /\ offset_resource = Offset(LastCandidate.x, LastCandidate.y)

\* C7, amended: such a batch resets the graph before its own roads are built:
\* once its ingestion has finished the offset equals the candidate and the
\* graph holds the vertices and edges of this batch alone, so its size is the
\* number of distinct resolvable road nodes of the batch (0 only when there is
\* none).
C7_RecentringRebuildsFromEmpty ==
    (last.op = "update_earth" /\ LastBeyondThreshold) =>
        /\ offset_resource = Offset(LastCandidate.x, LastCandidate.y)
        /\ DOMAIN traffic_graph.hashmap = LastResolved
        /\ get_size(traffic_graph) = Cardinality(LastResolved)
        /\ \A e \in Range(traffic_graph.edges) :
              \E i \in DOMAIN last.calls : \E j \in DOMAIN last.calls[i] :
                 LET c == last.calls[i][j]
                 IN /\ c.op = "add_connection"
                    /\ {e.from, e.to} = {traffic_graph.hashmap[c.from],
                                         traffic_graph.hashmap[c.to]}
        /\ Len(LastRoads) = 0 => traffic_graph.edges = <<>>

\* A batch beyond the threshold was ingested on a graph that held a vertex
\* the batch does not have, and the batch built two vertices and an edge.
C7_Witness ==
    /\ last.op = "update_earth"
    /\ LastBeyondThreshold
    /\ last.offset_before.finite
    /\ DOMAIN last.before.hashmap \ LastResolved # {}
    /\ Len(last.before.edges) > 0
    /\ get_size(traffic_graph) = 2
    /\ Len(traffic_graph.edges) > 0

\* s is a prefix of t.
IsPrefix(s, t) == Len(s) <= Len(t) /\ \A i \in DOMAIN s : s[i] = t[i]

\* C8: a batch whose candidate offset lies within the threshold of the current
\* offset leaves the offset unchanged and the graph additive: every vertex
\* keeps its handle and its location, every edge remains, and the batch only
\* appends vertices and edges.
C8_WithinThresholdIsAdditive ==
    (last.op = "update_earth" /\ ~LastBeyondThreshold) =>
        /\ offset_resource = last.offset_before
        /\ IsPrefix(last.before.nodes, traffic_graph.nodes)
        /\ IsPrefix(last.before.edges, traffic_graph.edges)
        /\ \A id \in DOMAIN last.before.hashmap :
              /\ id \in DOMAIN traffic_graph.hashmap
              /\ traffic_graph.hashmap[id] = last.before.hashmap[id]

\* A batch within the threshold, with a candidate other than the offset, was
\* ingested on a graph with vertices and edges and added a vertex and an edge.
C8_Witness ==
    /\ last.op = "update_earth"
    /\ ~LastBeyondThreshold
    /\ Offset(LastCandidate.x, LastCandidate.y) # last.offset_before
    /\ get_size(last.before) > 0
    /\ Len(last.before.edges) > 0
    /\ get_size(traffic_graph) > get_size(last.before)
    /\ Len(traffic_graph.edges) > Len(last.before.edges)

\* C9: after every completed ingestion every vertex stores the projection of
\* its node's location relative to the offset now active, and every edge joins
\* two such vertices and carries their distance: nothing built under a
\* replaced offset survives a recentring.
C9_GraphBuiltUnderActiveOffset ==
    last.op = "update_earth" =>
        /\ offset_resource.finite
        /\ \A id \in DOMAIN traffic_graph.hashmap :
              get_node_location(traffic_graph, traffic_graph.hashmap[id])
                 = project(WorldLocation(id), offset_resource)
        /\ \A e \in Range(traffic_graph.edges) :
              /\ e.from \in 1..get_size(traffic_graph)
              /\ e.to \in 1..get_size(traffic_graph)
              /\ IsEuclidean(e.distance, get_node_location(traffic_graph, e.from),
                             get_node_location(traffic_graph, e.to))
        /\ LastBeyondThreshold => DOMAIN traffic_graph.hashmap = LastResolved

\* The second batch recentred a graph that held vertices and an edge, and
\* built a vertex the graph held before, at its place under the new offset.
C9_Witness ==
    /\ last.op = "update_earth"
    /\ LastBeyondThreshold
    /\ last.offset_before.finite
    /\ Len(last.before.edges) > 0
    /\ \E id \in DOMAIN traffic_graph.hashmap \cap DOMAIN last.before.hashmap :
          get_node_location(traffic_graph, traffic_graph.hashmap[id])
             # get_node_location(last.before, last.before.hashmap[id])
(***************************************************************************)
(* Routing claims, over a finished call of get_shortest_path.              *)
(***************************************************************************)
Done == search.pc = "done"

\* The cost of the cheapest edge from a to b, -1 with no such edge.
Unreached == 0 - 1
StepCost(g, a, b, agent_type) ==
    LET costs == {EdgeCost(g.edges[i], agent_type) :
                    i \in {j \in DOMAIN g.edges : g.edges[j].from = a /\ g.edges[j].to = b}}
    IN IF costs = {} THEN Unreached
       ELSE CHOOSE c \in costs : \A d \in costs : c <= d

\* The least cost to the goal from v after one more Bellman-Ford round over d,
\* the sequence of least costs found so far (Unreached where there is none).
RelaxedCost(g, d, agent_type, v) ==
    LET via == {StepCost(g, v, w, agent_type) + d[w] :
                  w \in {x \in DOMAIN g.nodes :
                           /\ d[x] # Unreached
                           /\ StepCost(g, v, x, agent_type) # Unreached}}
        all == via \cup (IF d[v] = Unreached THEN {} ELSE {d[v]})
    IN IF all = {} THEN Unreached
       ELSE CHOOSE c \in all : \A e \in all : c <= e

RECURSIVE RelaxRound(_, _, _, _)
RelaxRound(g, d, agent_type, n) ==
    IF n = 0 THEN <<>>
    ELSE Append(RelaxRound(g, d, agent_type, n - 1), RelaxedCost(g, d, agent_type, n))

RECURSIVE CostsTo(_, _, _, _)
CostsTo(g, d, agent_type, rounds) ==
    IF rounds = 0 THEN d
    ELSE CostsTo(g, RelaxRound(g, d, agent_type, Len(g.nodes)), agent_type, rounds - 1)

\* The least cost of a directed path from `from` to `to`, Unreached with none.
ShortestCost(g, from, to, agent_type) ==
    CostsTo(g, [v \in DOMAIN g.nodes |-> IF v = to THEN 0 ELSE Unreached],
            agent_type, Len(g.nodes))[from]

Reachable(g, from, to) == ShortestCost(g, from, to, "Pedestrian") # Unreached

\* path runs from `from` to `to` along edges of g in their direction.
ValidPath(g, path, from, to) ==
    /\ Len(path) >= 1
    /\ path[1] = from
    /\ path[Len(path)] = to
    /\ \A i \in 1..(Len(path) - 1) :
         \E j \in DOMAIN g.edges :
            g.edges[j].from = path[i] /\ g.edges[j].to = path[i + 1]

RECURSIVE PathCost(_, _, _)
PathCost(g, path, agent_type) ==
    IF Len(path) <= 1 THEN 0
    ELSE StepCost(g, path[1], path[2], agent_type) + PathCost(g, Tail(path), agent_type)

\* C1: with valid handles and `to` reachable from `from`, get_shortest_path
\* returns a path that starts at `from`, ends at `to`, follows edges in their
\* direction, and whose total cost is the least among all directed paths from
\* `from` to `to` for the agent class.
C1_ReturnsMinimumCostPath ==
    (Done /\ Reachable(search.graph, search.from, search.to)) =>
        /\ search.result # None
        /\ ValidPath(search.graph, search.result[1], search.from, search.to)
        /\ PathCost(search.graph, search.result[1], search.agent_type)
             = ShortestCost(search.graph, search.from, search.to, search.agent_type)

\* C2: for every agent class the straight-line estimate of a vertex never
\* exceeds the least cost of a path from it to the goal, because every edge
\* costs at least the distance between its ends.
C2_HeuristicAdmissible ==
    \A agent_type \in AgentType :
        /\ \A i \in DOMAIN traffic_graph.edges :
             LET e == traffic_graph.edges[i]
             IN EdgeCost(e, agent_type)
                  >= CostScale * Distance(traffic_graph.nodes[e.from],
                                          traffic_graph.nodes[e.to])
        /\ \A v \in DOMAIN traffic_graph.nodes, to \in DOMAIN traffic_graph.nodes :
             LET c == ShortestCost(traffic_graph, v, to, agent_type)
             IN c # Unreached => EstimateCost(traffic_graph, v, to) <= c

\* C3: get_shortest_path returns None exactly when no directed path joins
\* `from` to `to`, whatever the agent class and whatever categories the edges
\* have (a disallowed edge is dearer, never closed); a returned path runs
\* from `from` to `to` along edges in their direction.
C3_NoneIffUnreachable ==
    Done =>
        /\ (search.result = None) <=> ~Reachable(search.graph, search.from, search.to)
        /\ search.result # None =>
             ValidPath(search.graph, search.result[1], search.from, search.to)

\* A pedestrian was routed A, B, C over a forward-only chain of motorway.
C3_Witness ==
    /\ Done
    /\ search.agent_type = "Pedestrian"
    /\ Len(search.graph.edges) = 2
    /\ \A i \in DOMAIN search.graph.edges :
         /\ search.graph.edges[i].road_type = "Motorway"
         /\ ~road_type_allowed_for_agent_type("Motorway", search.agent_type)
    /\ search.result # None
    /\ Len(search.result[1]) = 3
    /\ search.result[1][1] = search.from
    /\ search.result[1][3] = search.to
    /\ ~Reachable(search.graph, search.to, search.from)
(***************************************************************************)
(* Parser claims, over a finished call of convert_osm_json.  The shape of   *)
(* a document is read off the document itself.                              *)
(***************************************************************************)
Parsed == last.op = "convert_osm_json"

WellFormedRoot(json) ==
    /\ json.kind = "Object"
    /\ "elements" \in DOMAIN json.object
    /\ json.object["elements"].kind = "Array"

ElementsOf(json) == json.object["elements"].array

HasKind(object, key, kind) == key \in DOMAIN object /\ object[key].kind = kind

IsInteger(value) == value.kind = "Number" /\ value.n \in {"PosInt", "NegInt"}

\* tags is present and is not a flat string-to-string object.
BadTags(object) ==
    /\ "tags" \in DOMAIN object
    /\ \/ object["tags"].kind # "Object"
       \/ \E k \in DOMAIN object["tags"].object : object["tags"].object[k].kind # "String"

\* nodes is missing (there is no such array) or holds an entry that is no integer.
BadNodes(object) ==
    \/ "nodes" \notin DOMAIN object
    \/ object["nodes"].kind # "Array"
    \/ /\ object["nodes"].kind = "Array"
       /\ \E i \in DOMAIN object["nodes"].array : ~IsInteger(object["nodes"].array[i])

ElementViolation(e) ==
    \/ e.kind # "Object"
    \/ ~HasKind(e.object, "type", "String")
    \/ ~(HasKind(e.object, "id", "Number") /\ e.object["id"].n = "PosInt")
    \/ BadTags(e.object)
    \/ e.object["type"].string = "way" /\ BadNodes(e.object)

StructuralViolation(json) ==
    \/ ~WellFormedRoot(json)
    \/ \E i \in DOMAIN ElementsOf(json) : ElementViolation(ElementsOf(json)[i])

IsDataSyntaxError(result) ==
    /\ result.kind = "Err"
    /\ result.error.variant = "DataSyntax"
    /\ result.error.format = "OsmJson"
    /\ DOMAIN result = {"kind", "error"}

\* C11: whenever the document holds a structural violation (root, elements,
\* an element that is no object, type, id, tags, or the nodes of a way), in
\* whatever element of the list and of whatever type, convert_osm_json returns
\* one data-syntax error and no GeoData.
C11_StructuralViolationFails ==
    (Parsed /\ StructuralViolation(last.json)) => IsDataSyntaxError(last.result)

\* A sound first element is followed by a relation whose tags are not flat:
\* the conversion failed.
C11_Witness ==
    /\ Parsed
    /\ WellFormedRoot(last.json)
    /\ Len(ElementsOf(last.json)) = 2
    /\ ~ElementViolation(ElementsOf(last.json)[1])
    /\ ElementsOf(last.json)[2].kind = "Object"
    /\ HasKind(ElementsOf(last.json)[2].object, "type", "String")
    /\ ElementsOf(last.json)[2].object["type"].string = "relation"
    /\ BadTags(ElementsOf(last.json)[2].object)
    /\ IsDataSyntaxError(last.result)

\* C12: for every document convert_osm_json returns a GeoData or a DataSyntax
\* error of format OSM JSON; it never panics, neither on the unchecked
\* as_object of the second pass nor on the conversion of a number to f64.
C12_TotalAtParserBoundary ==
    Parsed => (last.result.kind = "Ok" \/ IsDataSyntaxError(last.result))

\* Both passes ran over a node whose longitude is a float and whose latitude
\* is a negative integer, and a GeoData came back with its location.
C12_Witness ==
    /\ Parsed
    /\ last.result.kind = "Ok"
    /\ \E i \in DOMAIN ElementsOf(last.json) :
         LET o == ElementsOf(last.json)[i].object
         IN /\ HasKind(o, "lon", "Number") /\ o["lon"].n = "Float"
            /\ HasKind(o, "lat", "Number") /\ o["lat"].n = "NegInt"
            /\ o["id"].value \in DOMAIN last.result.value.node_locations

IsNode(e) == e.object["type"].string = "node"

IsWay(e) == e.object["type"].string = "way"

HasCoordinates(e) == HasKind(e.object, "lon", "Number") /\ HasKind(e.object, "lat", "Number")

\* The tags of a sound element, as a map of strings.
TagsOf(e) ==
    IF "tags" \in DOMAIN e.object
    THEN [k \in DOMAIN e.object["tags"].object |-> e.object["tags"].object[k].string]
    ELSE <<>>

IsTagged(e) == DOMAIN TagsOf(e) # {}

IdOf(e) == e.object["id"].value

\* The node elements of a sound document that carry coordinates, by position.
Located(json) ==
    {i \in DOMAIN ElementsOf(json) :
        IsNode(ElementsOf(json)[i]) /\ HasCoordinates(ElementsOf(json)[i])}

LocatedIds(json) == {IdOf(ElementsOf(json)[i]) : i \in Located(json)}

\* The coordinates the document gives for a located id, in its last element.
LocationIn(json, id) ==
    LET i == CHOOSE i \in Located(json) :
                /\ IdOf(ElementsOf(json)[i]) = id
                /\ \A j \in Located(json) : IdOf(ElementsOf(json)[j]) = id => j <= i
    IN GeoLocation(ElementsOf(json)[i].object["lon"].value,
                   ElementsOf(json)[i].object["lat"].value)

ChunkOf(location) == from_vec2(project(location, Offset(0, 0)))

\* C13: in a document without structural violation, a node without numeric
\* lon or lat records no location and, untagged, raises no error; a tagged
\* node whose id has no location after pass 1 fails the whole conversion with
\* a data-syntax error; otherwise every tagged node is stored in the nodes of
\* the chunk of its projected location, and untagged nodes in no chunk.
C13_NodesAndTheirLocations ==
    (Parsed /\ ~StructuralViolation(last.json)) =>
        LET es == ElementsOf(last.json)
            geo == last.result.value
        IN IF \E i \in DOMAIN es :
                 IsNode(es[i]) /\ IsTagged(es[i]) /\ IdOf(es[i]) \notin LocatedIds(last.json)
           THEN IsDataSyntaxError(last.result)
           ELSE /\ last.result.kind = "Ok"
                /\ DOMAIN geo.node_locations = LocatedIds(last.json)
                /\ \A id \in LocatedIds(last.json) :
                     geo.node_locations[id] = LocationIn(last.json, id)
                /\ \A i \in DOMAIN es :
                     (IsNode(es[i]) /\ IsTagged(es[i])) =>
                        LET c == ChunkOf(LocationIn(last.json, IdOf(es[i])))
                        IN /\ c \in DOMAIN geo.chunks
                           /\ IdOf(es[i]) \in DOMAIN geo.chunks[c].nodes
                           /\ \E j \in DOMAIN es :
                                /\ IsNode(es[j]) /\ IdOf(es[j]) = IdOf(es[i])
                                /\ geo.chunks[c].nodes[IdOf(es[i])] = [tags |-> TagsOf(es[j])]
                /\ \A c \in DOMAIN geo.chunks : \A id \in DOMAIN geo.chunks[c].nodes :
                     /\ \E i \in DOMAIN es :
                          IsNode(es[i]) /\ IsTagged(es[i]) /\ IdOf(es[i]) = id
                     /\ c = ChunkOf(LocationIn(last.json, id))

\* An untagged node without coordinates was skipped and a tagged, located
\* node was stored in the chunk of its location.
C13_Witness ==
    /\ Parsed
    /\ ~StructuralViolation(last.json)
    /\ last.result.kind = "Ok"
    /\ \E i, j \in DOMAIN ElementsOf(last.json) :
         LET a == ElementsOf(last.json)[i]
             b == ElementsOf(last.json)[j]
         IN /\ IsNode(a) /\ ~HasCoordinates(a) /\ ~IsTagged(a)
            /\ IdOf(a) \notin DOMAIN last.result.value.node_locations
            /\ IsNode(b) /\ HasCoordinates(b) /\ IsTagged(b)
            /\ IdOf(b) \in DOMAIN
                 last.result.value.chunks[ChunkOf(LocationIn(last.json, IdOf(b)))].nodes

\* The classification rules of the claim, in their order.
ClassRules ==
    <<[key |-> "building", class |-> "Building"], [key |-> "waterway", class |-> "River"],
      [key |-> "highway", class |-> "Road"], [key |-> "landuse", class |-> "LandUse"]>>

ExpectedClass(tags) ==
    LET hits == {i \in DOMAIN ClassRules : ClassRules[i].key \in DOMAIN tags}
    IN IF hits # {}
       THEN Some(ClassRules[CHOOSE i \in hits : \A j \in hits : i <= j].class)
       ELSE IF "natural" \in DOMAIN tags /\ tags["natural"] = "water" THEN Some("Lake")
       ELSE None

ClassCollection(class) ==
    CASE class = "Building" -> "building_features"
      [] class = "River" -> "river_features"
      [] class = "Road" -> "road_features"
      [] class = "LandUse" -> "land_use_features"
      [] class = "Lake" -> "lake_features"

FeatureCollections ==
    {"building_features", "road_features", "land_use_features", "lake_features",
     "river_features"}

\* The chunks and collections of a GeoData that hold a feature of this id.
StoredIn(geo, id) ==
    {cf \in (DOMAIN geo.chunks) \X FeatureCollections : id \in DOMAIN geo.chunks[cf[1]][cf[2]]}

\* The member ids of a sound way.
MembersOf(e) ==
    [i \in DOMAIN e.object["nodes"].array |-> e.object["nodes"].array[i].value]

\* The positions of the members that resolve.
ResolvedMembers(e, geo) ==
    {i \in DOMAIN MembersOf(e) : MembersOf(e)[i] \in DOMAIN geo.node_locations}

RECURSIVE SumOver(_, _)
SumOver(f, S) ==
    IF S = {} THEN 0
    ELSE LET i == CHOOSE i \in S : TRUE IN f[i] + SumOver(f, S \ {i})

\* The chunk of the mean location of the members of a way that resolve.
MeanChunk(e, geo) ==
    LET R == ResolvedMembers(e, geo)
        lon == [i \in R |-> geo.node_locations[MembersOf(e)[i]].longitude]
        lat == [i \in R |-> geo.node_locations[MembersOf(e)[i]].latitude]
    IN ChunkOf(GeoLocation(SumOver(lon, R) \div Cardinality(R),
                           SumOver(lat, R) \div Cardinality(R)))

\* C15: a classified way is stored in the chunk of the projected mean of the
\* locations of its members that resolve (longitude and latitude averaged
\* apart, members that do not resolve left out); with no such member it is
\* stored in no chunk and raises no error.
C15_StoredInChunkOfMean ==
    (Parsed /\ last.result.kind = "Ok") =>
        \A i \in DOMAIN ElementsOf(last.json) :
            LET e == ElementsOf(last.json)[i]
                geo == last.result.value
            IN (IsWay(e) /\ ExpectedClass(TagsOf(e)) # None) =>
                 IF ResolvedMembers(e, geo) = {}
                 THEN StoredIn(geo, IdOf(e)) = {}
                 ELSE /\ StoredIn(geo, IdOf(e)) # {}
                      /\ \A cf \in StoredIn(geo, IdOf(e)) : cf[1] = MeanChunk(e, geo)

\* One way over two located members lies in a chunk that is the chunk of
\* neither member, and another way with one member that does not resolve lies
\* in the chunk of the member that does.
C15_Witness ==
    /\ Parsed
    /\ last.result.kind = "Ok"
    /\ \E i, j \in DOMAIN ElementsOf(last.json) :
         LET e == ElementsOf(last.json)[i]
             f == ElementsOf(last.json)[j]
             geo == last.result.value
         IN /\ IsWay(e) /\ IsWay(f)
            /\ Cardinality(ResolvedMembers(e, geo)) = 2
            /\ StoredIn(geo, IdOf(e)) # {}
            /\ \A cf \in StoredIn(geo, IdOf(e)) : \A k \in ResolvedMembers(e, geo) :
                 cf[1] # ChunkOf(geo.node_locations[MembersOf(e)[k]])
            /\ Len(MembersOf(f)) = 2
            /\ Cardinality(ResolvedMembers(f, geo)) = 1
            /\ \A cf \in StoredIn(geo, IdOf(f)) : \A k \in ResolvedMembers(f, geo) :
                 cf[1] = ChunkOf(geo.node_locations[MembersOf(f)[k]])
            /\ StoredIn(geo, IdOf(f)) # {}

(***************************************************************************)
(* Simplifier claims, over a finished call of simplify_polygon.            *)
(***************************************************************************)
Simplified == last.op = "simplify_polygon"

\* Twice the area of the triangle a point of a polygon spans with its two
\* cyclic neighbours, as a cross product.
SpannedArea(polygon, i) ==
    LET n == Len(polygon)
        a == polygon[((i + n - 2) % n) + 1]
        b == polygon[i]
        c == polygon[(i % n) + 1]
        cross == (b.x - a.x) * (c.y - a.y) - (b.y - a.y) * (c.x - a.x)
    IN IF cross < 0 THEN 0 - cross ELSE cross

\* A square of side 2 with the midpoint of its lower side, from each of its
\* points onwards.
SquareWithMidpoint == <<Vec2(0, 0), Vec2(1, 0), Vec2(2, 0), Vec2(2, 2), Vec2(0, 2)>>

Rotation(s, k) == [i \in 1..Len(s) |-> s[((i + k - 1) % Len(s)) + 1]]

SquaresWithMidpoint == {Rotation(SquareWithMidpoint, k) : k \in 0..4}

IsCorner(p) == p # Vec2(1, 0)

\* C16: for an input of 4 points or more, simplify_polygon returns either
\* exactly 4 points or a polygon whose every point spans, with its two cyclic
\* neighbours, an area above the threshold; the square with a midpoint, under
\* a generous threshold, comes back as its 4 corners.
C16_FourPointsOrAllAboveThreshold ==
    (Simplified /\ Len(last.polygon) >= 4) =>
        /\ \/ Len(last.result) = 4
           \/ \A i \in DOMAIN last.result : SpannedArea(last.result, i) > last.threshold
        /\ (last.polygon \in SquaresWithMidpoint /\ last.threshold = Generous) =>
              last.result = SelectSeq(last.polygon, IsCorner)

\* The square with its midpoint came back, under the generous threshold, as
\* its four corners.
C16_Witness ==
    /\ Simplified
    /\ last.polygon = SquareWithMidpoint
    /\ last.threshold = Generous
    /\ last.result = <<Vec2(0, 0), Vec2(2, 0), Vec2(2, 2), Vec2(0, 2)>>

\* C17: the square with a midpoint, simplified with threshold 0, is returned
\* unchanged, all 5 points in their order.
C17_ThresholdZeroReturnsUnchanged ==
    (Simplified /\ last.polygon \in SquaresWithMidpoint /\ last.threshold = 0) =>
        last.result = last.polygon

\* C18: an input of 4 points or more never comes back with fewer than 4, and
\* an input of 4 points or fewer comes back unchanged, whatever the threshold.
C18_FloorOfFourPoints ==
    Simplified =>
        /\ Len(last.polygon) >= 4 => Len(last.result) >= 4
        /\ Len(last.polygon) <= 4 => last.result = last.polygon

\* Six points, none of which is above the threshold, came back as four.
C18_Witness ==
    /\ Simplified
    /\ Len(last.polygon) = 6
    /\ last.threshold = Generous
    /\ Len(last.result) = 4
(***************************************************************************)
(* Claims about the tags read in graph construction (SpecTags).            *)
(***************************************************************************)
\* The names of the categories, as the `highway` tag spells them.
HighwayNames ==
    {"motorway", "trunk", "primary", "secondary", "tertiary", "unclassified",
     "residential", "motorway_link", "trunk_link", "primary_link",
     "secondary_link", "tertiary_link", "footway", "steps", "path"}

\* The direction the tags of a road stand for.
TagDirection(tags) ==
    IF "oneway" \notin DOMAIN tags THEN "No"
    ELSE IF tags["oneway"] \in {"yes", "true", "1"} THEN "Yes"
    ELSE IF tags["oneway"] \in {"-1", "reverse"} THEN "Reversed"
    ELSE "No"

\* The road carries no category: no `highway` tag, or one that names none in
\* any letter case.
Uncategorized(tags) ==
    \/ "highway" \notin DOMAIN tags
    \/ tags["highway"] \notin
          HighwayNames \cup {"Motorway", "FOOTWAY"}

\* The edges of g from OSM id a to OSM id b.
EdgesBetween(g, a, b) ==
    {i \in DOMAIN g.edges :
        /\ a \in DOMAIN g.hashmap /\ b \in DOMAIN g.hashmap
        /\ g.edges[i].from = g.hashmap[a] /\ g.edges[i].to = g.hashmap[b]}

\* The graph the road was added to: empty after a recentring.
GraphBuiltOn == IF last.recentred THEN DefaultTrafficGraph ELSE last.before

\* C19: the direction and category used in graph construction are total
\* functions of a road's tags: `oneway` absent or unrecognised gives two-way,
\* yes/true/1 forward-only, -1/reverse reversed; `highway` absent or
\* unrecognised gives NotCovered; whatever the tag values, the road is walked
\* and its edges are added.
C19_TagsHaveTotalFallbacks ==
    (last.op = "update_earth" /\ last.data \in TagData) =>
        LET road == last.data.chunks[1][1]
            IsConnection(c) == c.op = "add_connection"
            connections == SelectSeq(last.calls[1], IsConnection)
            direction == TagDirection(road.tags)
            forward == EdgesBetween(traffic_graph, 1, 2) \ EdgesBetween(GraphBuiltOn, 1, 2)
            backward == EdgesBetween(traffic_graph, 2, 1) \ EdgesBetween(GraphBuiltOn, 2, 1)
        IN /\ Len(last.calls) = 1
           /\ Len(connections) = 1
           /\ connections[1].from = 1 /\ connections[1].to = 2
           /\ connections[1].oneway \in OneWay
           /\ connections[1].oneway = direction
           /\ connections[1].road_type \in RoadType
           /\ Uncategorized(road.tags) => connections[1].road_type = "NotCovered"
           /\ Cardinality(forward) = (IF direction \in {"Yes", "No"} THEN 1 ELSE 0)
           /\ Cardinality(backward) = (IF direction \in {"No", "Reversed"} THEN 1 ELSE 0)
           /\ \A i \in forward \cup backward :
                 traffic_graph.edges[i].road_type = connections[1].road_type

\* A road whose `oneway` and `highway` values are both unrecognised was added
\* as a two-way road of no category.
C19_Witness ==
    /\ last.op = "update_earth"
    /\ last.data \in TagData
    /\ LET road == last.data.chunks[1][1]
       IN /\ "oneway" \in DOMAIN road.tags /\ road.tags["oneway"] = "alternating"
          /\ "highway" \in DOMAIN road.tags /\ road.tags["highway"] = "cycleway"
          /\ Cardinality(EdgesBetween(traffic_graph, 1, 2)) > 0
          /\ Cardinality(EdgesBetween(traffic_graph, 2, 1)) > 0

(***************************************************************************)
(* Claims about the conversions of tag values (SpecConvert).               *)
(***************************************************************************)
\* The variants of the enum a conversion is for.
VariantsOf(type) ==
    CASE type = "OneWay" -> OneWay
      [] type = "RoadType" -> RoadType
      [] type = "BuildingType" -> BuildingType
      [] type = "RoofShape" -> RoofShape
      [] type = "BuildingLandUseType" -> BuildingLandUseType

\* C20: the conversions for oneway, highway, landuse, building and roof-shape
\* are total: for every input string each returns a definite variant of its
\* enum, and never an error.
C20_ConversionsNeverFail ==
    last.op = "from_str" =>
        /\ last.result.kind = "Ok"
        /\ last.result.value \in VariantsOf(last.type)

(***************************************************************************)
(* Claims about the GeoData convert_osm_json returns (SpecParse).          *)
(***************************************************************************)
\* A member of the feature resolves in node_locations.
HasResolvedMember(geo, feature) ==
    \E i \in DOMAIN feature.nodes : feature.nodes[i] \in DOMAIN geo.node_locations

\* C26: in every GeoData returned each stored feature has a member node that
\* resolves in node_locations; every road feature has a `highway` tag and
\* neither a `building` nor a `waterway` tag, every land-use feature a
\* `landuse` tag, every building feature a `building` tag; every stored node
\* has a tag and a recorded location; no chunk of the chunk map is empty.
C26_StoredFeaturesMatchTheirTags ==
    (Parsed /\ last.result.kind = "Ok") =>
        LET geo == last.result.value
        IN \A c \in DOMAIN geo.chunks :
             LET chunk == geo.chunks[c]
             IN /\ \E field \in DOMAIN chunk : DOMAIN chunk[field] # {}
                /\ \A field \in FeatureCollections : \A id \in DOMAIN chunk[field] :
                      HasResolvedMember(geo, chunk[field][id])
                /\ \A id \in DOMAIN chunk.road_features :
                      /\ "highway" \in DOMAIN chunk.road_features[id].tags
                      /\ "building" \notin DOMAIN chunk.road_features[id].tags
                      /\ "waterway" \notin DOMAIN chunk.road_features[id].tags
                /\ \A id \in DOMAIN chunk.land_use_features :
                      "landuse" \in DOMAIN chunk.land_use_features[id].tags
                /\ \A id \in DOMAIN chunk.building_features :
                      "building" \in DOMAIN chunk.building_features[id].tags
                /\ \A id \in DOMAIN chunk.nodes :
                      /\ DOMAIN chunk.nodes[id].tags # {}
                      /\ id \in DOMAIN geo.node_locations

\* A GeoData came back that holds a road, of a document with a second way
\* that has a class and no member that resolves.
C26_Witness ==
    /\ Parsed
    /\ last.result.kind = "Ok"
    /\ \E c \in DOMAIN last.result.value.chunks :
          DOMAIN last.result.value.chunks[c].road_features # {}
    /\ \E i \in DOMAIN ElementsOf(last.json) :
          LET e == ElementsOf(last.json)[i]
          IN /\ IsWay(e)
             /\ ExpectedClass(TagsOf(e)) # None
             /\ ResolvedMembers(e, last.result.value) = {}

(***************************************************************************)
(* Claims about the offset, from the initial state onwards (Spec).         *)
(***************************************************************************)
\* The candidate of a batch: the unscaled projection of a median location.
CandidateOf(median) == Offset(project_no_scale(median).x, project_no_scale(median).y)

\* C30: from the initial state, whose offset is negative infinity on both
\* axes, the first ingested batch recentres whatever its content; every
\* ingestion leaves the offset finite: the candidate of the batch when it
\* recentres, and otherwise the finite offset it found, so that the offset is
\* always the candidate of the most recent batch that recentred.
C30_OffsetIsLastRecentringCandidate ==
    [][last'.op = "update_earth" =>
          /\ offset_resource'.finite
          /\ last.op = "init" => (~offset_resource.finite /\ last'.recentred)
          /\ last'.recentred => offset_resource' = CandidateOf(last'.median)
          /\ ~last'.recentred =>
                (offset_resource.finite /\ offset_resource' = offset_resource)]_vars

\* The first batch, without any node, recentred from the default offset.
C30_Witness ==
    /\ last.op = "update_earth"
    /\ last.ingested = 1
    /\ last.data.node_locations = <<>>
    /\ ~last.offset_before.finite
    /\ last.recentred
    /\ offset_resource = CandidateOf(GeoLocation(0, 0))

(***************************************************************************)
(* Claims about the loop of simplify_polygon (SpecSimplifySteps).          *)
(***************************************************************************)
\* A sequence without its element at index k.
Without(s, k) == [i \in 1..(Len(s) - 1) |-> IF i < k THEN s[i] ELSE s[i + 1]]

\* The lowest index among the points of a polygon that span the least area.
FirstOfLeastArea(polygon) ==
    CHOOSE i \in DOMAIN polygon :
        /\ \A j \in DOMAIN polygon : SpannedArea(polygon, i) <= SpannedArea(polygon, j)
        /\ \A j \in 1..(i - 1) : SpannedArea(polygon, j) # SpannedArea(polygon, i)

\* What the rule of the claim makes of a polygon: while more than 4 points
\* remain and the least area does not exceed the threshold, the first point of
\* least area goes.
RECURSIVE RemoveWhileSmall(_, _)
RemoveWhileSmall(polygon, threshold) ==
    IF Len(polygon) <= 4 THEN polygon
    ELSE LET k == FirstOfLeastArea(polygon)
         IN IF SpannedArea(polygon, k) > threshold THEN polygon
            ELSE RemoveWhileSmall(Without(polygon, k), threshold)

\* C21: each iteration of the loop that removes, removes exactly one vertex:
\* the one whose cached area is globally smallest, the lowest index among
\* equals, and only if that area does not exceed the threshold; the result is
\* the function of the input order and the threshold this rule defines.
C21_RemovesFirstSmallestWithinThreshold ==
    /\ (simplifier.pc # "idle" /\ simplifier.removed # None) =>
          LET r == simplifier.removed[1]
          IN /\ simplifier.polygon = Without(r.polygon, r.index)
             /\ \A j \in DOMAIN r.areas : r.areas[r.index] <= r.areas[j]
             /\ \A j \in 1..(r.index - 1) : r.areas[j] > r.areas[r.index]
             /\ r.areas[r.index] <= simplifier.threshold
    /\ simplifier.pc = "return" =>
          simplifier.polygon = RemoveWhileSmall(simplifier.input, simplifier.threshold)

\* A vertex was removed that shared the smallest cached area with a later one.
C21_Witness ==
    /\ simplifier.pc # "idle"
    /\ simplifier.removed # None
    /\ LET r == simplifier.removed[1]
       IN \E j \in (r.index + 1)..Len(r.areas) : r.areas[j] = r.areas[r.index]

\* C22: at the start of every iteration of the loop the cached area of every
\* vertex equals the area of the triangle it forms with its two cyclic
\* neighbours, also after the first or the last vertex of the list was removed.
C22_CachedAreasAreCurrent ==
    simplifier.pc = "loop" =>
        /\ Len(simplifier.areas) = Len(simplifier.polygon)
        /\ \A i \in DOMAIN simplifier.polygon :
              simplifier.areas[i] = SpannedArea(simplifier.polygon, i)

\* An iteration starts after the last vertex of the list was removed, with a
\* first vertex whose area changed by it.
C22_Witness ==
    /\ simplifier.pc = "loop"
    /\ Len(simplifier.polygon) > 4
    /\ simplifier.removed # None
    /\ LET r == simplifier.removed[1]
       IN /\ r.index = Len(r.polygon)
          /\ simplifier.areas[1] # r.areas[1]

\* a[i..] is found in b[j..], in order.
RECURSIVE IsSubsequenceFrom(_, _, _, _)
IsSubsequenceFrom(a, b, i, j) ==
    IF i > Len(a) THEN TRUE
    ELSE IF j > Len(b) THEN FALSE
    ELSE IF a[i] = b[j] THEN IsSubsequenceFrom(a, b, i + 1, j + 1)
    ELSE IsSubsequenceFrom(a, b, i, j + 1)

\* C27: the output of simplify_polygon is an order-preserving subsequence of
\* its input: points are only removed, never added, moved, duplicated or
\* reordered.
C27_OutputIsSubsequence ==
    simplifier.pc = "return" =>
        /\ IsSubsequenceFrom(simplifier.polygon, simplifier.input, 1, 1)
        /\ Len(simplifier.polygon) <= Len(simplifier.input)

\* A call returned fewer points than it was given, of a polygon whose points
\* all differ.
C27_Witness ==
    /\ simplifier.pc = "return"
    /\ Len(simplifier.polygon) < Len(simplifier.input)
    /\ Cardinality(Range(simplifier.input)) = Len(simplifier.input)

\* C28: simplify_polygon is idempotent for a fixed threshold: applied to its
\* own result under the same threshold it returns that result.
C28_Idempotent ==
    (simplifier.pc = "return" /\ simplifier.round = 2) =>
        simplifier.polygon = simplifier.first[1].result

\* The second call returned, on a result of more than 4 points that the first
\* call had shortened.
C28_Witness ==
    /\ simplifier.pc = "return"
    /\ simplifier.round = 2
    /\ Len(simplifier.first[1].result) > 4
    /\ Len(simplifier.first[1].result) < Len(simplifier.first[1].input)

\* The agent tasks the last event spawned.
AgentTasksOfLastBatch ==
    {i \in DOMAIN tasks : tasks[i].kind = "AgentCreation" /\ tasks[i].batch = Ingested}

\* g holds both ends of every link of every road of the chunks, and an edge
\* between them.
HoldsRoadsOf(g, chunks) ==
    \A c \in DOMAIN chunks : \A r \in DOMAIN chunks[c] :
        LET nodes == chunks[c][r].nodes
        IN \A k \in 1..(Len(nodes) - 1) :
              /\ nodes[k] \in DOMAIN g.hashmap
              /\ nodes[k + 1] \in DOMAIN g.hashmap
              /\ \E e \in Range(g.edges) :
                    {e.from, e.to} = {g.hashmap[nodes[k]], g.hashmap[nodes[k + 1]]}

\* The path of every agent lies in the graph its task was given.
RoutedOnTaskGraph(all_agents, all_tasks) ==
    \A a \in DOMAIN all_agents :
        LET g == all_tasks[all_agents[a].task].arguments.graph
        IN /\ Range(all_agents[a].path) \subseteq 1..get_size(g)
           /\ \A k \in 1..(Len(all_agents[a].path) - 1) :
                 \E e \in Range(g.edges) :
                    {e.from, e.to} = {all_agents[a].path[k], all_agents[a].path[k + 1]}

\* C23: every routing query of agent creation runs on a snapshot of the
\* traffic graph taken after the graph was built for all chunks of the batch:
\* the graph a new agent task holds is the traffic graph as its event leaves
\* it, with the roads of every chunk of the event in it; no later step
\* changes the graph a task holds, whatever happens to the live graph; and
\* the path of every agent lies in the graph its task holds.
C23_AgentsRouteOnTheBuiltGraph ==
    [][/\ \A i \in DOMAIN tasks :
             i \in DOMAIN tasks' /\ tasks'[i].arguments = tasks[i].arguments
       /\ \A i \in (DOMAIN tasks') \ (DOMAIN tasks) :
             tasks'[i].kind = "AgentCreation" =>
                /\ tasks'[i].arguments.graph = traffic_graph'
                /\ HoldsRoadsOf(tasks'[i].arguments.graph, last'.data.chunks)
       /\ RoutedOnTaskGraph(agents', tasks')]_vars

\* An agent of a task of the last event, an event of two chunks, walks a road
\* of the second chunk.
C23_Witness ==
    /\ last.op = "update_earth"
    /\ Len(last.data.chunks) = 2
    /\ \E a \in DOMAIN agents :
          /\ agents[a].task \in AgentTasksOfLastBatch
          /\ Len(agents[a].path) = 2
          /\ get_size(traffic_graph) \in Range(agents[a].path)

\* The OSM node vertex index stands for in g.
OsmIdsAt(g, index) == {id \in DOMAIN g.hashmap : g.hashmap[id] = index}

\* The vertex handles an agent holds.
HandlesOf(agent) == Range(agent.path) \cup {agent.destination}

\* C24: every vertex handle in the path or destination of an agent refers to
\* a vertex of the current traffic graph, the vertex it was computed for,
\* also when a recentring reset the graph while the task was pending.
C24_HandlesReferToCurrentGraph ==
    \A a \in DOMAIN agents : \A h \in HandlesOf(agents[a]) :
        /\ h \in 1..get_size(traffic_graph)
        /\ OsmIdsAt(traffic_graph, h)
              = OsmIdsAt(tasks[agents[a].task].arguments.graph, h)

\* C25: handle_compute_tasks hands the result of a computation to the
\* callback at most once and never polls a task after that; a computation
\* that has finished is delivered in the end, the polling systems running on.
C25_DeliveredExactlyOnce ==
    /\ [](\A i \in DOMAIN tasks : tasks[i].delivered <= 1 /\ ~tasks[i].polled_after)
    /\ \A i \in 1..MaxTasks :
          (i \in DOMAIN tasks /\ tasks[i].status = "finished")
             ~> (i \in DOMAIN tasks /\ tasks[i].delivered = 1 /\ ~tasks[i].component)

\* Every task of an event with an agent task has been delivered, and the
\* agent of the agent task is in the world.
C25_Witness ==
    /\ Len(tasks) = MaxTasks
    /\ \A i \in DOMAIN tasks : tasks[i].delivered = 1 /\ tasks[i].status = "received"
    /\ agents # <<>>

\* The sum of a sequence of numbers.
SumSeq(s) == SumOver([i \in DOMAIN s |-> s[i]], DOMAIN s)

\* C29: an event asks for floor((size after - size before) / 100) agents, the
\* size before being the size ahead of any reset, and for none when the graph
\* has shrunk; the agents are split over tasks of at most 100 each, and no
\* task is spawned on an empty graph.
C29_AgentsPerHundredNewVertices ==
    last.op = "spawn_agent_tasks" =>
        LET grown == last.size - last.old_traffic_graph_size
            asked == SumSeq(last.spawns)
        IN /\ grown < 0 => asked = 0
           /\ grown >= 0 => 100 * asked <= grown /\ grown < 100 * (asked + 1)
           /\ \A k \in DOMAIN last.spawns : last.spawns[k] \in 1..100
           /\ \A k \in 1..(Len(last.spawns) - 1) : last.spawns[k] = 100
           /\ last.spawns # <<>> =>
                 /\ last.size > 0
                 /\ Panic \notin last.created
                 /\ \E r \in last.created : Len(r.value) = 1

\* A recentring event on a graph of 150 vertices built 25099 vertices: 249
\* agents in three tasks.
C29_Witness ==
    /\ last.op = "spawn_agent_tasks"
    /\ last.recentred
    /\ last.old_traffic_graph_size = 150
    /\ last.size = 25099
    /\ last.spawns = <<100, 100, 49>>

====
